---- MODULE Spec2Model ----
(***************************************************************************)
(* A model of gpgsm's agent client (sm/call-agent.c).  One action per      *)
(* public operation; an action is the whole call: the acquisition of the   *)
(* session, every command line it sends, the callbacks it runs and the     *)
(* value it returns.  What the agent and the collaborators answer is the   *)
(* call's environment, drawn from small sets.                              *)
(*                                                                         *)
(* Representation: command lines and C-string arguments are TLA+ strings;  *)
(* byte buffers (agent replies, signatures, plaintext) are sequences of    *)
(* one-character strings, with NUL standing for the zero byte; inquiry and *)
(* status lines are records [kw, rest] of their leading keyword and the    *)
(* text after it, which is what has_leading_keyword computes.              *)
(***************************************************************************)
EXTENDS Integers, Sequences, FiniteSets, TLC

VARIABLES
  agent_ctx,   \* the process-wide session: TRUE when a connection is held
  shown,       \* start_agent's static flag: the "no agent" note was logged
  agent_seen,  \* ctrl->agent_seen
  opt,         \* the options: [autostart]
  pc,          \* "idle": the caller is between calls; "returned": a call ended
  call,        \* the last call: [op, args, env]
  ret,         \* what the last call did and returned
  keybox       \* the certificate store: the certificates in file order

vars == <<agent_ctx, shown, agent_seen, opt, pc, call, ret, keybox>>

--------------------------------------------------------------------------
(* Values *)

NULL == "<NULL>"
NUL == "<0>"

OK == "0"
GPG_ERR_GENERAL == "GPG_ERR_GENERAL"
GPG_ERR_INV_VALUE == "GPG_ERR_INV_VALUE"
GPG_ERR_INV_ARG == "GPG_ERR_INV_ARG"
GPG_ERR_INV_SEXP == "GPG_ERR_INV_SEXP"
GPG_ERR_ENOMEM == "GPG_ERR_ENOMEM"
GPG_ERR_DIGEST_ALGO == "GPG_ERR_DIGEST_ALGO"
GPG_ERR_NO_AGENT == "GPG_ERR_NO_AGENT"
GPG_ERR_NO_DATA == "GPG_ERR_NO_DATA"
GPG_ERR_INTERNAL == "GPG_ERR_INTERNAL"
\* outcomes that are not return values: the process died in the call
SIGSEGV == "SIGSEGV"
SIGABRT == "SIGABRT"

ASSUAN_LINELENGTH == 1002

GCRY_MD_MD5 == 1
GCRY_MD_SHA1 == 2
GCRY_MD_RMD160 == 3
GCRY_MD_SHA256 == 8

--------------------------------------------------------------------------
(* Bounds and input sets *)

MaxInq == 1        \* inquiries the agent sends in one transaction
MaxSig == 2        \* raw signatures of every length up to this, over SigBytes
MaxData == 2       \* plaintexts of every length up to this, over DataBytes
MaxStatus == 2     \* status lines the agent sends in one transaction
MaxLearn == 4      \* lines the agent sends while the card is learned
MaxStore == 3      \* certificates in the store when gpgsm_delete starts
MaxNames == 2      \* names given to gpgsm_delete
MaxFault == 5      \* a store function fails at its first to MaxFault-th call

SeqsUpTo(S, n) == UNION {[1..k -> S] : k \in 0..n}

Rep(x, n) == [i \in 1..n |-> x]

\* 476 is the longest digest the length check lets through, 477 the first it stops
Digest20 == [i \in 1..20 |-> (i * 13 + 7) % 256]
Digests == {<<>>, Digest20, Rep(255, 476), Rep(0, 477)}
DigestAlgos == {0, GCRY_MD_MD5, GCRY_MD_SHA1, GCRY_MD_RMD160, GCRY_MD_SHA256, 9}

K40 == "0123456789ABCDEF0123456789ABCDEF01234567"
K39 == "0123456789ABCDEF0123456789ABCDEF0123456"
K41 == "0123456789ABCDEF0123456789ABCDEF012345678"
K40x == "this-is-not-hex-but-has-forty-characters"
KeygripArgs == {NULL, K39, K40, K40x, K41}
DescArgs == {NULL, "desc"}

AgentErrs == {"GPG_ERR_NO_SECKEY", "GPG_ERR_CANCELED"}
TransactRc == {OK} \cup AgentErrs
ConnRc == {OK, GPG_ERR_NO_AGENT, "GPG_ERR_ASS_CONNECT_FAILED"}

\* What a build may do with a NULL passed to a %s conversion
UBNull == {"prints (null)", "crash"}
UBFor(s) == IF s = NULL THEN UBNull ELSE {"prints (null)"}

--------------------------------------------------------------------------
(* Library helpers, as the calls of this file use them *)

HexDigits == <<"0", "1", "2", "3", "4", "5", "6", "7",
               "8", "9", "A", "B", "C", "D", "E", "F">>

\* sprintf(p, "%02X", byte)
Hex2(b) == HexDigits[(b \div 16) + 1] \o HexDigits[(b % 16) + 1]

\* for (i = 0; i < digestlen; i++, p += 2) sprintf(p, "%02X", digest[i]);
\* the digits of the bytes in order (computed by halves)
RECURSIVE HexStr(_)
HexStr(d) ==
  IF Len(d) = 0 THEN ""
  ELSE IF Len(d) = 1 THEN Hex2(d[1])
  ELSE LET h == Len(d) \div 2 IN
       HexStr(SubSeq(d, 1, h)) \o HexStr(SubSeq(d, h + 1, Len(d)))

\* snprintf(line, DIM(line), ...): the formatted text, cut to fit the line
snprintf(s) ==
  IF Len(s) >= ASSUAN_LINELENGTH THEN SubSeq(s, 1, ASSUAN_LINELENGTH - 1) ELSE s

\* a %s argument (glibc prints "(null)" for NULL)
PrintfS(s) == IF s = NULL THEN "(null)" ELSE s

DigitChars == <<"0", "1", "2", "3", "4", "5", "6", "7", "8", "9">>
digitp(c) == \E i \in 1..10 : DigitChars[i] = c
DigitVal(c) == (CHOOSE i \in 1..10 : DigitChars[i] = c) - 1

\* sprintf(p, "%u", n), as bytes
RECURSIVE Dec(_)
Dec(n) == IF n < 10 THEN <<DigitChars[n + 1]>>
          ELSE Dec(n \div 10) \o <<DigitChars[(n % 10) + 1]>>

\* The byte at 0-based offset i; memory past what was written reads as NUL
At(buf, i) == IF i < Len(buf) THEN buf[i + 1] ELSE NUL

\* gcry_sexp_canon_len(buffer, length, NULL, NULL): the length of the
\* canonical S-expression at the start of buffer, 0 when there is none.
\* length = 0 means "not known".  p is the scan offset, which is also count.
RECURSIVE canon_scan(_, _, _, _, _)
canon_scan(buf, length, p, datalen, level) ==
  LET c == At(buf, p) IN
  IF length # 0 /\ p >= length THEN 0
  ELSE IF datalen # 0 THEN
    IF c = ":" THEN
      IF length # 0 /\ p + datalen >= length THEN 0
      ELSE canon_scan(buf, length, p + datalen + 1, 0, level)
    ELSE IF digitp(c) THEN
      canon_scan(buf, length, p + 1, datalen * 10 + DigitVal(c), level)
    ELSE 0
  ELSE IF c = "(" THEN canon_scan(buf, length, p + 1, 0, level + 1)
  ELSE IF c = ")" THEN
    IF level = 0 THEN 0
    ELSE IF level = 1 THEN p + 1
    ELSE canon_scan(buf, length, p + 1, 0, level - 1)
  ELSE IF digitp(c) THEN
    IF c = "0" THEN 0 ELSE canon_scan(buf, length, p + 1, DigitVal(c), level)
  ELSE 0

gcry_sexp_canon_len(buffer, length) ==
  IF buffer = NULL THEN 0
  ELSE IF At(buffer, 0) # "(" THEN 0
  ELSE canon_scan(buffer, length, 0, 0, 0)

--------------------------------------------------------------------------
(* The session *)

\* The call did not reach start_agent: the session state is as it was
NotStarted ==
  [called |-> FALSE, rc |-> OK, tried |-> FALSE, logged |-> 0,
   ctx |-> agent_ctx, shown |-> shown, seen |-> agent_seen]

\* start_new_gpg_agent(&agent_ctx, ...): conn is the value it returns; the
\* context is set when it returns 0 and is left NULL otherwise
start_new_gpg_agent(conn) == [rc |-> conn, ctx |-> conn = OK]

\* (mutant) the note is logged at every failed attempt
start_agent_nagging(conn) ==
  LET new == start_new_gpg_agent(conn)
      rc == IF agent_ctx THEN OK ELSE new.rc
      note == ~agent_ctx /\ ~opt.autostart /\ rc = GPG_ERR_NO_AGENT
  IN [called |-> TRUE, rc |-> rc, tried |-> ~agent_ctx,
      logged |-> IF note THEN 1 ELSE 0,
      ctx |-> IF agent_ctx THEN TRUE ELSE new.ctx,
      shown |-> shown \/ note,
      seen |-> TRUE]

\* (mutant) the agent is connected to at every call
start_agent_reconnects(conn) ==
  LET new == start_new_gpg_agent(conn)
      rc == new.rc
      note == ~opt.autostart /\ rc = GPG_ERR_NO_AGENT /\ ~shown
  IN [called |-> TRUE, rc |-> rc, tried |-> TRUE,
      logged |-> IF note THEN 1 ELSE 0,
      ctx |-> new.ctx,
      shown |-> shown \/ note,
      seen |-> TRUE]

\* start_agent(ctrl); conn is what start_new_gpg_agent returns if it is called
start_agent(conn) ==
  LET new == start_new_gpg_agent(conn)
      rc == IF agent_ctx THEN OK ELSE new.rc
      note == ~agent_ctx /\ ~opt.autostart /\ rc = GPG_ERR_NO_AGENT /\ ~shown
  IN [called |-> TRUE, rc |-> rc, tried |-> ~agent_ctx,
      logged |-> IF note THEN 1 ELSE 0,
      ctx |-> IF agent_ctx THEN TRUE ELSE new.ctx,
      shown |-> shown \/ note,
      seen |-> TRUE]

\* The connect results a call can meet: none is drawn while a session is held
ConnFor == IF agent_ctx THEN {OK} ELSE ConnRc

--------------------------------------------------------------------------
(* Inquiries *)

\* An inquiry the agent sends, with what the collaborators answer while it
\* is handled: relay is gpgsm_proxy_pinentry_notify's result, static the
\* static passphrase source's (NULL: none is configured), send is
\* assuan_send_data's.
Inq(kw, relay, static, send) ==
  [kw |-> kw, rest |-> "", relay |-> relay, static |-> static, send |-> send]

RelayErr == "GPG_ERR_ASS_WRITE_ERROR"
SendErr == "GPG_ERR_ASS_WRITE_ERROR"

DefaultInquiries ==
  {Inq("PINENTRY_LAUNCHED", OK, NULL, OK),
   Inq("PINENTRY_LAUNCHED", RelayErr, NULL, OK),
   Inq("PASSPHRASE", OK, NULL, OK),
   Inq("PASSPHRASE", OK, "secret", OK),
   Inq("PASSPHRASE", OK, "secret", SendErr),
   Inq("NEW_PASSPHRASE", OK, "secret", OK),
   Inq("FOO", OK, NULL, OK)}

has_leading_keyword(line, name) == line.kw = name

sm_have_static_passphrase(line) == line.static # NULL
sm_get_static_passphrase(line) == line.static

\* What one run of an inquiry handler did: the value it returned, whether it
\* called the UI relay, the payloads it sent (each with the channel's
\* confidential flag at the time of the send), the errors it logged and the
\* confidential flag when it returned.
Handled(line, err, relayed, sends, logs) ==
  [line |-> [kw |-> line.kw, rest |-> line.rest], err |-> err,
   relayed |-> relayed, sends |-> sends, logs |-> logs, conf |-> FALSE]

\* (mutant) an inquiry that is not understood is refused
default_inq_cb_strict(line) ==
  IF has_leading_keyword(line, "PINENTRY_LAUNCHED") THEN
    Handled(line, line.relay, TRUE, <<>>,
            IF line.relay # OK THEN <<"failed to proxy">> ELSE <<>>)
  ELSE IF (has_leading_keyword(line, "PASSPHRASE")
             \/ has_leading_keyword(line, "NEW_PASSPHRASE"))
          /\ sm_have_static_passphrase(line) THEN
    Handled(line, line.send, FALSE,
            <<[data |-> sm_get_static_passphrase(line), conf |-> FALSE]>>, <<>>)
  ELSE Handled(line, "GPG_ERR_ASS_UNKNOWN_INQUIRE", FALSE, <<>>,
               <<"ignoring gpg-agent inquiry">>)

\* (mutant) only PASSPHRASE is answered from the static passphrase
default_inq_cb_passonly(line) ==
  IF has_leading_keyword(line, "PINENTRY_LAUNCHED") THEN
    Handled(line, line.relay, TRUE, <<>>,
            IF line.relay # OK THEN <<"failed to proxy">> ELSE <<>>)
  ELSE IF has_leading_keyword(line, "PASSPHRASE")
          /\ sm_have_static_passphrase(line) THEN
    Handled(line, line.send, FALSE,
            <<[data |-> sm_get_static_passphrase(line), conf |-> FALSE]>>, <<>>)
  ELSE Handled(line, OK, FALSE, <<>>, <<"ignoring gpg-agent inquiry">>)

default_inq_cb(line) ==
  IF has_leading_keyword(line, "PINENTRY_LAUNCHED") THEN
    Handled(line, line.relay, TRUE, <<>>,
            IF line.relay # OK THEN <<"failed to proxy">> ELSE <<>>)
  ELSE IF (has_leading_keyword(line, "PASSPHRASE")
             \/ has_leading_keyword(line, "NEW_PASSPHRASE"))
          /\ sm_have_static_passphrase(line) THEN
    Handled(line, line.send, FALSE,
            <<[data |-> sm_get_static_passphrase(line), conf |-> FALSE]>>, <<>>)
  ELSE Handled(line, OK, FALSE, <<>>, <<"ignoring gpg-agent inquiry">>)

\* A payload sent between assuan_begin_confidential and assuan_end_confidential
SentConfidential(line, data) ==
  Handled(line, line.send, FALSE, <<[data |-> data, conf |-> TRUE]>>, <<>>)

\* parm is the handler's context: the payload it has to deliver
inq_ciphertext_cb(parm, line) ==
  IF has_leading_keyword(line, "CIPHERTEXT")
    THEN SentConfidential(line, parm.ciphertext)
  ELSE default_inq_cb(line)

inq_genkey_parms(parm, line) ==
  IF has_leading_keyword(line, "KEYPARAM") THEN
    Handled(line, line.send, FALSE, <<[data |-> parm.sexp, conf |-> FALSE]>>, <<>>)
  ELSE default_inq_cb(line)

inq_import_key_parms(parm, line) ==
  IF has_leading_keyword(line, "KEYDATA")
    THEN SentConfidential(line, parm.key)
  ELSE default_inq_cb(line)

\* The call of the inquiry handler a transaction was given
inquire_cb(cb, parm, line) ==
  CASE cb = "default_inq_cb" -> default_inq_cb(line)
    [] cb = "inq_ciphertext_cb" -> inq_ciphertext_cb(parm, line)
    [] cb = "inq_genkey_parms" -> inq_genkey_parms(parm, line)
    [] cb = "inq_import_key_parms" -> inq_import_key_parms(parm, line)

\* assuan_transact's handling of the inquiries of one transaction: they are
\* handled in order, and the first one whose handler fails ends the
\* transaction with the handler's error.
RECURSIVE RunInquiries(_, _, _, _)
RunInquiries(cb, parm, lines, done) ==
  IF lines = <<>> THEN [rc |-> OK, inq |-> done]
  ELSE LET h == inquire_cb(cb, parm, Head(lines)) IN
       IF h.err # OK THEN [rc |-> h.err, inq |-> Append(done, h)]
       ELSE RunInquiries(cb, parm, Tail(lines), Append(done, h))

\* One transaction that has an inquiry handler: the handler's error if one
\* fails, the agent's final answer fin otherwise.
TransactInq(cb, parm, lines, fin) ==
  LET r == RunInquiries(cb, parm, lines, <<>>) IN
  [rc |-> IF r.rc # OK THEN r.rc ELSE fin, inq |-> r.inq]

--------------------------------------------------------------------------
(* Result buffers *)

NULLBUF == <<NULL>>   \* a null buffer pointer
UNSET == -1           \* a length the call never assigned

\* What a membuf can be when the reply has been received: "ok", "oom" (an
\* allocation failed while it grew), or, for a membuf nothing was written
\* to, the bytes its fresh allocation happens to hold.
FreshMemory == {<<"x">>, <<"(", "1", ":", "a", ")">>}
MemFor(reply) ==
  {[oom |-> TRUE, fresh |-> <<>>]}
    \cup {[oom |-> FALSE, fresh |-> g] :
            g \in IF reply = <<>> THEN FreshMemory ELSE {<<>>}}

\* get_membuf(&data, &len) after the reply was collected by put_membuf_cb
get_membuf(reply, mem) ==
  IF mem.oom THEN [buf |-> NULLBUF, len |-> UNSET]
  ELSE IF reply = <<>> THEN [buf |-> mem.fresh, len |-> 0]
  ELSE [buf |-> reply, len |-> Len(reply)]

\* What every call reports: the value returned (or the signal that ended the
\* process), what start_agent did, the command lines sent in order, the
\* result of the last transaction that had callbacks (NULL: not reached),
\* the inquiries handled, and the outputs.
Result(rc, sa, sent, trans, inq, out) ==
  [rc |-> rc, sa |-> sa, sent |-> sent, trans |-> trans, inq |-> inq, out |-> out]

--------------------------------------------------------------------------
(* sign *)

\* (mutant) the algorithm number is left out of the line
sethash_line_noalgo(digestalgo, digest) == "SETHASH " \o HexStr(digest)

\* sprintf(line, "SETHASH %d ", digestalgo) and the hex digits of the digest
sethash_line(digestalgo, digest) ==
  "SETHASH " \o ToString(digestalgo) \o " " \o HexStr(digest)

gpgsm_agent_pksign(keygrip, desc, digest, digestalgo, env) ==
  LET sa == start_agent(env.conn)
      nobuf == [r_buf |-> NULLBUF, r_buflen |-> UNSET]
      R(rc, sent) == Result(rc, sa, sent, NULL, <<>>, nobuf)
      s2 == <<"RESET", snprintf("SIGKEY " \o PrintfS(keygrip))>>
      s3 == IF desc # NULL
            THEN Append(s2, snprintf("SETKEYDESC " \o desc)) ELSE s2
      s4 == Append(s3, sethash_line(digestalgo, digest))
      s5 == Append(s4, "PKSIGN")
      t == TransactInq("default_inq_cb", NULL, env.inq, env.rcs[5])
      mb == get_membuf(env.reply, env.mem)
  IN
  IF sa.rc # OK THEN R(sa.rc, <<>>)
  ELSE IF Len(digest) * 2 + 50 > ASSUAN_LINELENGTH THEN R(GPG_ERR_GENERAL, <<>>)
  ELSE IF env.rcs[1] # OK THEN R(env.rcs[1], <<"RESET">>)
  ELSE IF keygrip = NULL /\ env.ub = "crash" THEN R(SIGSEGV, <<"RESET">>)
  ELSE IF env.rcs[2] # OK THEN R(env.rcs[2], s2)
  ELSE IF desc # NULL /\ env.rcs[3] # OK THEN R(env.rcs[3], s3)
  ELSE IF env.rcs[4] # OK THEN R(env.rcs[4], s4)
  ELSE IF t.rc # OK THEN Result(t.rc, sa, s5, t.rc, t.inq, nobuf)
  ELSE IF gcry_sexp_canon_len(mb.buf, mb.len) = 0
    THEN Result(GPG_ERR_INV_VALUE, sa, s5, OK, t.inq,
                [r_buf |-> NULLBUF, r_buflen |-> mb.len])
  ELSE Result(IF mb.buf # NULLBUF THEN OK ELSE GPG_ERR_ENOMEM, sa, s5, OK, t.inq,
              [r_buf |-> mb.buf, r_buflen |-> mb.len])

--------------------------------------------------------------------------
(* card-sign *)

\* (mutant) one more algorithm is let through
hashopt_sha384(digestalgo) ==
  CASE digestalgo = GCRY_MD_SHA1 -> "--hash=sha1"
    [] digestalgo = GCRY_MD_RMD160 -> "--hash=rmd160"
    [] digestalgo = GCRY_MD_MD5 -> "--hash=md5"
    [] digestalgo = GCRY_MD_SHA256 -> "--hash=sha256"
    [] digestalgo = 9 -> "--hash=sha384"
    [] OTHER -> NULL

\* switch (digestalgo): the option for the algorithm, NULL for the default case
hashopt(digestalgo) ==
  CASE digestalgo = GCRY_MD_SHA1 -> "--hash=sha1"
    [] digestalgo = GCRY_MD_RMD160 -> "--hash=rmd160"
    [] digestalgo = GCRY_MD_MD5 -> "--hash=md5"
    [] digestalgo = GCRY_MD_SHA256 -> "--hash=sha256"
    [] OTHER -> NULL

SigValPrefix ==
  <<"(", "7", ":", "s", "i", "g", "-", "v", "a", "l",
    "(", "3", ":", "r", "s", "a", "(", "1", ":", "s">>

\* (mutant) the memcpy of the signature is left out: the bytes of the
\* allocation stay where the signature belongs
wrap_sig_nocopy(sigbuf, sigbuflen) ==
  SigValPrefix \o Dec(sigbuflen) \o <<":">> \o Rep("x", sigbuflen)
    \o <<")", ")", ")", NUL>>

\* The bytes written to the result: "(7:sig-val(3:rsa(1:s", the length and a
\* colon, the signature, ")))" and strcpy's terminator
wrap_sig(sigbuf, sigbuflen) ==
  SigValPrefix \o Dec(sigbuflen) \o <<":">> \o sigbuf \o <<")", ")", ")", NUL>>

\* env adds to the common fields: alloc, whether xtrymalloc succeeds; ndebug,
\* whether the build compiles assert() away; junk, the value sigbuflen holds
\* when get_membuf failed and never assigned it.
gpgsm_scd_pksign(keyid, desc, digest, digestalgo, env) ==
  LET nobuf == [r_buf |-> NULLBUF, r_buflen |-> UNSET]
      sa == start_agent(env.conn)
      R(rc, sent) == Result(rc, sa, sent, NULL, <<>>, nobuf)
      s1 == <<"SCD SETDATA " \o HexStr(digest)>>
      s2 == Append(s1, snprintf("SCD PKSIGN " \o hashopt(digestalgo) \o " "
                                  \o PrintfS(keyid)))
      t == TransactInq("default_inq_cb", NULL, env.inq, env.rcs[2])
      mb == get_membuf(env.reply, env.mem)
      sigbuf == IF mb.buf = NULLBUF \/ mb.len = 0 THEN <<>> ELSE mb.buf
      sigbuflen == IF mb.buf = NULLBUF THEN env.junk ELSE mb.len
      r_buflen == 21 + 11 + sigbuflen + 4
      r_buf == wrap_sig(sigbuf, sigbuflen)
  IN
  IF hashopt(digestalgo) = NULL
    THEN Result(GPG_ERR_DIGEST_ALGO, NotStarted, <<>>, NULL, <<>>, nobuf)
  ELSE IF sa.rc # OK THEN R(sa.rc, <<>>)
  ELSE IF Len(digest) * 2 + 50 > ASSUAN_LINELENGTH THEN R(GPG_ERR_GENERAL, <<>>)
  ELSE IF env.rcs[1] # OK THEN R(env.rcs[1], s1)
  ELSE IF keyid = NULL /\ env.ub = "crash" THEN R(SIGSEGV, s1)
  ELSE IF t.rc # OK THEN Result(t.rc, sa, s2, t.rc, t.inq, nobuf)
  ELSE IF ~env.alloc
    THEN Result(OK, sa, s2, OK, t.inq, [r_buf |-> NULLBUF, r_buflen |-> r_buflen])
  \* memcpy(p, sigbuf, sigbuflen) from a null sigbuf
  ELSE IF mb.buf = NULLBUF /\ sigbuflen > 0
    THEN Result(SIGSEGV, sa, s2, OK, t.inq, nobuf)
  ELSE IF gcry_sexp_canon_len(r_buf, r_buflen) = 0 /\ ~env.ndebug
    THEN Result(SIGABRT, sa, s2, OK, t.inq, nobuf)
  ELSE Result(OK, sa, s2, OK, t.inq, [r_buf |-> r_buf, r_buflen |-> r_buflen])

--------------------------------------------------------------------------
(* decrypt *)

UNTOUCHED == <<"<untouched>">>   \* an output the call never assigned

isspace(c) == c \in {" ", "\t", "\n", "\r", "\f"}

\* The offset of the first byte at or after p that is not a digit
RECURSIVE DigitsEnd(_, _)
DigitsEnd(buf, p) == IF digitp(At(buf, p)) THEN DigitsEnd(buf, p + 1) ELSE p

\* The value of the digits at offsets p .. e-1
RECURSIVE DigitsValue(_, _, _)
DigitsValue(buf, p, e) ==
  IF p >= e THEN 0 ELSE DigitsValue(buf, p, e - 1) * 10 + DigitVal(At(buf, e - 1))

RECURSIVE SkipSpace(_, _)
SkipSpace(buf, p) == IF isspace(At(buf, p)) THEN SkipSpace(buf, p + 1) ELSE p

\* strtoul(buf + p, &endp, 10): blanks, an optional sign, digits.  n is the
\* number read, negative for a number with a minus sign, which strtoul
\* returns negated as an unsigned long; endp is p when there are no digits.
strtoul(buf, p) ==
  LET q == SkipSpace(buf, p)
      d == IF At(buf, q) \in {"+", "-"} THEN q + 1 ELSE q
      e == DigitsEnd(buf, d)
      v == DigitsValue(buf, d, e)
  IN IF e = d THEN [n |-> 0, endp |-> p]
     ELSE [n |-> IF At(buf, q) = "-" THEN 0 - v ELSE v, endp |-> e]

ValueTag == <<"(", "5", ":", "v", "a", "l", "u", "e">>

\* gpgsm_agent_pkdecrypt from "if (*buf == '(')" on: buf is the reply with
\* the NUL that was appended, len0 its length.  live tells whether buf is
\* still allocated and owned by the call when it returns.  A number with a
\* minus sign is an n near 2^64: endp - p + n wraps around, and the check
\* passes or not, but memmove(buf, endp, n) then runs off the buffer.
extract_value(buf, len0) ==
  LET paren == At(buf, 0) = "("
      len == IF paren THEN len0 - 11 ELSE len0 - 1
      p == IF paren THEN 8 ELSE 0
      r == strtoul(buf, p)
      endp == r.endp + 1
      none == [r_buf |-> NULLBUF, r_buflen |-> UNSET]
  IN
  IF paren /\ (len0 < 13 \/ SubSeq(buf, 1, 8) # ValueTag)
    THEN [rc |-> GPG_ERR_INV_SEXP, out |-> none, live |-> TRUE]
  ELSE IF r.n = 0 \/ At(buf, r.endp) # ":"
    THEN [rc |-> GPG_ERR_INV_SEXP, out |-> none, live |-> TRUE]
  ELSE IF r.n < 0 /\ endp - p + r.n >= 0 /\ endp - p + r.n <= len
    THEN [rc |-> SIGSEGV, out |-> none, live |-> TRUE]
  ELSE IF r.n < 0 \/ endp - p + r.n > len
    THEN [rc |-> GPG_ERR_INV_SEXP, out |-> none, live |-> TRUE]
  ELSE [rc |-> OK, live |-> FALSE,
        out |-> [r_buf |-> SubSeq(buf, endp + 1, endp + r.n)
                             \o SubSeq(buf, r.n + 1, Len(buf)),
                 r_buflen |-> r.n]]

\* outp: whether r_buf and r_buflen point somewhere
gpgsm_agent_pkdecrypt(keygrip, desc, ciphertext, outp, env) ==
  LET sa == start_agent(env.conn)
      none == [r_buf |-> NULLBUF, r_buflen |-> UNSET]
      R(rc, sent) == Result(rc, sa, sent, NULL, <<>>, none) @@ [live |-> FALSE]
      ciphertextlen == gcry_sexp_canon_len(ciphertext, 0)
      s2 == <<"RESET", snprintf("SETKEY " \o keygrip)>>
      s3 == IF desc # NULL
            THEN Append(s2, snprintf("SETKEYDESC " \o desc)) ELSE s2
      s4 == Append(s3, "PKDECRYPT")
      t == TransactInq("inq_ciphertext_cb",
                       [ciphertext |-> SubSeq(ciphertext, 1, ciphertextlen)],
                       env.inq, env.rcs[4])
      \* put_membuf(&data, "", 1) and get_membuf
      mb == get_membuf(env.reply \o <<NUL>>, env.mem)
      x == extract_value(mb.buf, mb.len)
  IN
  IF keygrip = NULL \/ Len(keygrip) # 40 \/ ciphertext = NULLBUF \/ ~outp
    THEN Result(GPG_ERR_INV_VALUE, NotStarted, <<>>, NULL, <<>>,
                [r_buf |-> UNTOUCHED, r_buflen |-> UNSET]) @@ [live |-> FALSE]
  ELSE IF ciphertextlen = 0
    THEN Result(GPG_ERR_INV_VALUE, NotStarted, <<>>, NULL, <<>>, none)
           @@ [live |-> FALSE]
  ELSE IF sa.rc # OK THEN R(sa.rc, <<>>)
  ELSE IF env.rcs[1] # OK THEN R(env.rcs[1], <<"RESET">>)
  ELSE IF env.rcs[2] # OK THEN R(env.rcs[2], s2)
  ELSE IF desc # NULL /\ env.rcs[3] # OK THEN R(env.rcs[3], s3)
  ELSE IF t.rc # OK
    THEN Result(t.rc, sa, s4, t.rc, t.inq, none) @@ [live |-> FALSE]
  ELSE IF mb.buf = NULLBUF
    THEN Result(GPG_ERR_ENOMEM, sa, s4, OK, t.inq, none) @@ [live |-> FALSE]
  ELSE Result(x.rc, sa, s4, OK, t.inq, x.out) @@ [live |-> x.live]

--------------------------------------------------------------------------
(* keygrip queries: havekey, passwd, keyinfo, export_key *)

NoOut == <<>>   \* the operation has no output parameter

gpgsm_agent_havekey(hexkeygrip, env) ==
  LET sa == start_agent(env.conn) IN
  IF sa.rc # OK THEN Result(sa.rc, sa, <<>>, NULL, <<>>, NoOut)
  ELSE IF hexkeygrip = NULL \/ Len(hexkeygrip) # 40
    THEN Result(GPG_ERR_INV_VALUE, sa, <<>>, NULL, <<>>, NoOut)
  ELSE Result(env.rcs[1], sa, <<snprintf("HAVEKEY " \o hexkeygrip)>>,
              NULL, <<>>, NoOut)

\* (mutant) PASSWD is sent whatever the answer to SETKEYDESC was
gpgsm_agent_passwd_goes_on(hexkeygrip, desc, env) ==
  LET sa == start_agent(env.conn)
      R(rc, sent) == Result(rc, sa, sent, NULL, <<>>, NoOut)
      s1 == IF desc # NULL THEN <<snprintf("SETKEYDESC " \o desc)>> ELSE <<>>
      s2 == Append(s1, snprintf("PASSWD " \o hexkeygrip))
      t == TransactInq("default_inq_cb", NULL, env.inq, env.rcs[2])
  IN
  IF sa.rc # OK THEN R(sa.rc, <<>>)
  ELSE IF hexkeygrip = NULL \/ Len(hexkeygrip) # 40
    THEN R(GPG_ERR_INV_VALUE, <<>>)
  ELSE Result(t.rc, sa, s2, t.rc, t.inq, NoOut)

gpgsm_agent_passwd(hexkeygrip, desc, env) ==
  LET sa == start_agent(env.conn)
      R(rc, sent) == Result(rc, sa, sent, NULL, <<>>, NoOut)
      s1 == IF desc # NULL THEN <<snprintf("SETKEYDESC " \o desc)>> ELSE <<>>
      s2 == Append(s1, snprintf("PASSWD " \o hexkeygrip))
      t == TransactInq("default_inq_cb", NULL, env.inq, env.rcs[2])
  IN
  IF sa.rc # OK THEN R(sa.rc, <<>>)
  ELSE IF hexkeygrip = NULL \/ Len(hexkeygrip) # 40
    THEN R(GPG_ERR_INV_VALUE, <<>>)
  ELSE IF desc # NULL /\ env.rcs[1] # OK THEN R(env.rcs[1], s1)
  ELSE Result(t.rc, sa, s2, t.rc, t.inq, NoOut)

\* strchr(buf + p, c): the offset of the first c at or after p, -1 for NULL
RECURSIVE strchr(_, _, _)
strchr(buf, p, c) ==
  IF p >= Len(buf) THEN -1
  ELSE IF At(buf, p) = c THEN p
  ELSE strchr(buf, p + 1, c)

\* One run of keyinfo_status_cb: the serial number held afterwards.  alloc
\* tells whether xtrymalloc succeeds.  With no blank after the serial
\* number s2 is NULL and "s2 > s" is false.
keyinfo_status_cb(serialno, line, alloc) ==
  LET s == strchr(line.rest, 0, " ")
      t == s + 3
      s2 == strchr(line.rest, t, " ")
  IN
  IF has_leading_keyword(line, "KEYINFO") /\ serialno = NULLBUF
       /\ s # -1 /\ At(line.rest, s + 1) = "T" /\ At(line.rest, s + 2) = " "
       /\ At(line.rest, s + 3) # NUL /\ s2 > t
    THEN IF alloc THEN SubSeq(line.rest, t + 1, s2) ELSE NULLBUF
  ELSE serialno

\* The status lines of one transaction, handed to keyinfo_status_cb in order
RECURSIVE keyinfo_status(_, _, _)
keyinfo_status(serialno, lines, alloc) ==
  IF lines = <<>> THEN serialno
  ELSE keyinfo_status(keyinfo_status_cb(serialno, Head(lines), alloc),
                      Tail(lines), alloc)

\* (mutant) the colon is missing from the set of bad characters
strpbrk_nocolon(serialno) ==
  \E i \in 1..Len(serialno) : serialno[i] \in {"\n", "\r"}

\* strpbrk(serialno, ":\n\r") finds something
strpbrk(serialno) ==
  \E i \in 1..Len(serialno) : serialno[i] \in {":", "\n", "\r"}

gpgsm_agent_keyinfo(hexkeygrip, env) ==
  LET sa == start_agent(env.conn)
      none == [r_serialno |-> NULLBUF]
      line == snprintf("KEYINFO " \o hexkeygrip)
      serialno == keyinfo_status(NULLBUF, env.status, env.alloc)
      err == IF env.rcs[1] = OK /\ serialno # NULLBUF /\ strpbrk(serialno)
             THEN GPG_ERR_INV_VALUE ELSE env.rcs[1]
  IN
  IF sa.rc # OK THEN Result(sa.rc, sa, <<>>, NULL, <<>>, none)
  ELSE IF hexkeygrip = NULL \/ Len(hexkeygrip) # 40
    THEN Result(GPG_ERR_INV_VALUE, sa, <<>>, NULL, <<>>, none)
  ELSE Result(err, sa, <<line>>, env.rcs[1], <<>>,
              IF err # OK THEN none ELSE [r_serialno |-> serialno])

gpgsm_agent_export_key(keygrip, desc, env) ==
  LET sa == start_agent(env.conn)
      none == [r_result |-> NULLBUF, r_resultlen |-> UNSET]
      R(rc, sent) == Result(rc, sa, sent, NULL, <<>>, none) @@ [live |-> FALSE]
      s1 == IF desc # NULL THEN <<snprintf("SETKEYDESC " \o desc)>> ELSE <<>>
      s2 == Append(s1, snprintf("EXPORT_KEY " \o PrintfS(keygrip)))
      t == TransactInq("default_inq_cb", NULL, env.inq, env.rcs[2])
      mb == get_membuf(env.reply, env.mem)
  IN
  IF sa.rc # OK THEN R(sa.rc, <<>>)
  ELSE IF desc # NULL /\ env.rcs[1] # OK THEN R(env.rcs[1], s1)
  ELSE IF keygrip = NULL /\ env.ub = "crash" THEN R(SIGSEGV, s1)
  ELSE IF t.rc # OK
    THEN Result(t.rc, sa, s2, t.rc, t.inq, none) @@ [live |-> FALSE]
  ELSE IF mb.buf = NULLBUF
    THEN Result(GPG_ERR_ENOMEM, sa, s2, OK, t.inq, none) @@ [live |-> FALSE]
  ELSE Result(OK, sa, s2, OK, t.inq,
              [r_result |-> mb.buf, r_resultlen |-> mb.len]) @@ [live |-> FALSE]

--------------------------------------------------------------------------
(* ask_passphrase *)

\* percent_plus_escape: a blank becomes '+', and '+', '%' and control
\* characters become %XX; NULL when the copy cannot be allocated
RECURSIVE percent_plus_escape(_, _)
percent_plus_escape(s, alloc) ==
  IF ~alloc THEN NULL
  ELSE IF s = "" THEN ""
  ELSE LET c == SubSeq(s, 1, 1)
           e == CASE c = " " -> "+"
                  [] c = "+" -> "%2B"
                  [] c = "%" -> "%25"
                  [] c = "\n" -> "%0A"
                  [] OTHER -> c
       IN e \o percent_plus_escape(SubSeq(s, 2, Len(s)), alloc)

\* env.esc tells whether percent_plus_escape gets its memory; live, as for
\* decrypt, whether the call still owns a result buffer when it returns
gpgsm_agent_ask_passphrase(desc_msg, repeat, env) ==
  LET sa == start_agent(env.conn)
      none == [r_passphrase |-> NULLBUF]
      R(rc, sent) == Result(rc, sa, sent, NULL, <<>>, none) @@ [live |-> FALSE]
      escape == desc_msg # NULL /\ desc_msg # ""
      arg4 == IF escape THEN percent_plus_escape(desc_msg, env.esc) ELSE NULL
      line == snprintf("GET_PASSPHRASE --data"
                         \o (IF repeat THEN " --repeat=1 --check --qualitybar"
                             ELSE "")
                         \o " -- X X X " \o PrintfS(arg4))
      t == TransactInq("default_inq_cb", NULL, env.inq, env.rcs[1])
      \* put_membuf(&data, "", 1) and get_membuf
      mb == get_membuf(env.reply \o <<NUL>>, env.mem)
  IN
  IF sa.rc # OK THEN R(sa.rc, <<>>)
  ELSE IF escape /\ arg4 = NULL THEN R(GPG_ERR_ENOMEM, <<>>)
  ELSE IF arg4 = NULL /\ env.ub = "crash" THEN R(SIGSEGV, <<>>)
  ELSE IF t.rc # OK
    THEN Result(t.rc, sa, <<line>>, t.rc, t.inq, none) @@ [live |-> FALSE]
  ELSE IF mb.buf = NULLBUF
    THEN Result(GPG_ERR_ENOMEM, sa, <<line>>, OK, t.inq, none) @@ [live |-> FALSE]
  ELSE Result(OK, sa, <<line>>, OK, t.inq, [r_passphrase |-> mb.buf])
         @@ [live |-> FALSE]

--------------------------------------------------------------------------
(* keypairinfo *)

\* The bytes of a C string
Chars(s) == [i \in 1..Len(s) |-> SubSeq(s, i, i)]

spacep(c) == c \in {" ", "\t"}

\* for (; *p && !spacep(p); p++): the offset where the loop stops
RECURSIVE SkipWord(_, _)
SkipWord(buf, p) ==
  IF At(buf, p) # NUL /\ ~spacep(At(buf, p)) THEN SkipWord(buf, p + 1) ELSE p

\* while (spacep(p)) p++: the offset where the loop stops
RECURSIVE SkipBlanks(_, _)
SkipBlanks(buf, p) == IF spacep(At(buf, p)) THEN SkipBlanks(buf, p + 1) ELSE p

\* (mutant) the entry is the whole text after the keyword
scd_keypairinfo_status_cb_whole(list, line) ==
  LET keywordlen == SkipWord(line, 0)
      d == SubSeq(line, SkipBlanks(line, keywordlen) + 1, Len(line))
  IN
  IF keywordlen = 11 /\ SubSeq(line, 1, 11) = Chars("KEYPAIRINFO")
    THEN Append(list, d)
  ELSE list

\* One run of scd_keypairinfo_status_cb on the raw status line: the list
\* afterwards.  append_to_strlist copies the text after the keyword to the
\* end of the list; the copy is cut after its second word.
scd_keypairinfo_status_cb(list, line) ==
  LET keywordlen == SkipWord(line, 0)
      d == SubSeq(line, SkipBlanks(line, keywordlen) + 1, Len(line))
      p1 == SkipWord(d, 0)
      p3 == SkipWord(d, SkipBlanks(d, p1))
  IN
  IF keywordlen = 11 /\ SubSeq(line, 1, 11) = Chars("KEYPAIRINFO")
    THEN Append(list, IF At(d, p1) # NUL THEN SubSeq(d, 1, p3) ELSE d)
  ELSE list

\* The status lines of one transaction, handed to the callback in order
RECURSIVE scd_keypairinfo_status(_, _)
scd_keypairinfo_status(list, lines) ==
  IF lines = <<>> THEN list
  ELSE scd_keypairinfo_status(scd_keypairinfo_status_cb(list, Head(lines)),
                              Tail(lines))

\* A strlist_t is the sequence of its strings, NULL the empty one.  The
\* status lines and the inquiries of the transaction are kept apart: when
\* an inquiry handler fails the list is freed whatever it holds.
gpgsm_agent_scd_keypairinfo(env) ==
  LET sa == start_agent(env.conn)
      none == [r_list |-> <<>>]
      t == TransactInq("default_inq_cb", NULL, env.inq, env.rcs[1])
      list == scd_keypairinfo_status(<<>>, env.status)
      rc == IF t.rc = OK /\ list = <<>> THEN GPG_ERR_NO_DATA ELSE t.rc
  IN
  IF sa.rc # OK THEN Result(sa.rc, sa, <<>>, NULL, <<>>, none)
  ELSE Result(rc, sa, <<"SCD LEARN --force">>, t.rc, t.inq,
              IF rc # OK THEN none ELSE [r_list |-> list])

--------------------------------------------------------------------------
(* serialno *)

hexdigitp(c) ==
  c \in {"0", "1", "2", "3", "4", "5", "6", "7", "8", "9",
         "A", "B", "C", "D", "E", "F", "a", "b", "c", "d", "e", "f"}

\* for (s = line; hexdigitp(s); s++): the offset where the loop stops
RECURSIVE SkipHex(_, _)
SkipHex(buf, p) == IF hexdigitp(At(buf, p)) THEN SkipHex(buf, p + 1) ELSE p

\* (mutant) the copy ends at the first blank
store_serialno_word(line, alloc) ==
  IF alloc THEN SubSeq(line, 1, SkipWord(line, 0)) ELSE NULLBUF

\* store_serialno: a copy of the hex digits line begins with, NULL when
\* xtrymalloc fails
store_serialno(line, alloc) ==
  IF alloc THEN SubSeq(line, 1, SkipHex(line, 0)) ELSE NULLBUF

\* One run of scd_serialno_status_cb on the raw status line: *r_serialno
\* afterwards
scd_serialno_status_cb(serialno, line, alloc) ==
  LET keywordlen == SkipWord(line, 0)
      rest == SubSeq(line, SkipBlanks(line, keywordlen) + 1, Len(line))
  IN
  IF keywordlen = 8 /\ SubSeq(line, 1, 8) = Chars("SERIALNO")
    THEN store_serialno(rest, alloc)
  ELSE serialno

\* The status lines of one transaction, handed to the callback in order;
\* allocs[i] tells whether an xtrymalloc while line i is handled succeeds
RECURSIVE scd_serialno_status(_, _, _)
scd_serialno_status(serialno, lines, allocs) ==
  IF lines = <<>> THEN serialno
  ELSE scd_serialno_status(
         scd_serialno_status_cb(serialno, Head(lines), Head(allocs)),
         Tail(lines), Tail(allocs))

gpgsm_agent_scd_serialno(env) ==
  LET sa == start_agent(env.conn)
      none == [r_serialno |-> NULLBUF]
      t == TransactInq("default_inq_cb", NULL, env.inq, env.rcs[1])
      serialno == scd_serialno_status(NULLBUF, env.status, env.allocs)
      rc == IF t.rc = OK /\ serialno = NULLBUF THEN GPG_ERR_INTERNAL ELSE t.rc
  IN
  IF sa.rc # OK THEN Result(sa.rc, sa, <<>>, NULL, <<>>, none)
  ELSE Result(rc, sa, <<"SCD SERIALNO">>, t.rc, t.inq,
              IF rc # OK THEN none ELSE [r_serialno |-> serialno])

--------------------------------------------------------------------------
(* delete: the certificate store as delete_one drives it *)

EOF == "-1"   \* what sm_keydb_search returns when nothing more is found
GPG_ERR_AMBIGUOUS_NAME == "GPG_ERR_AMBIGUOUS_NAME"
GPG_ERR_NO_PUBKEY == "GPG_ERR_NO_PUBKEY"
GPG_ERR_INV_USER_ID == "GPG_ERR_INV_USER_ID"

KEYDB_SEARCH_MODE_SUBSTR == "KEYDB_SEARCH_MODE_SUBSTR"
KEYDB_SEARCH_MODE_FPR == "KEYDB_SEARCH_MODE_FPR"
KEYDB_SEARCH_MODE_FPR20 == "KEYDB_SEARCH_MODE_FPR20"
KEYDB_SEARCH_MODE_FPR16 == "KEYDB_SEARCH_MODE_FPR16"
KEYDB_SEARCH_MODE_KEYGRIP == "KEYDB_SEARCH_MODE_KEYGRIP"

\* A certificate in the store: its fingerprint, the name it is found
\* under, and whether it is flagged ephemeral
Cert(fpr, name, eph) == [fpr |-> fpr, name |-> name, eph |-> eph]

\* classify_user_id: an empty name is refused, "0x<fpr>" asks for a
\* fingerprint, "&<grip>" for a keygrip (a certificate's keygrip is taken
\* to be its fingerprint), anything else for a substring of the name
classify_user_id(username) ==
  IF username = "" THEN [rc |-> GPG_ERR_INV_USER_ID, mode |-> NULL, key |-> NULL]
  ELSE IF Len(username) > 2 /\ SubSeq(username, 1, 2) = "0x"
    THEN [rc |-> OK, mode |-> KEYDB_SEARCH_MODE_FPR20,
          key |-> SubSeq(username, 3, Len(username))]
  ELSE IF Len(username) > 1 /\ SubSeq(username, 1, 1) = "&"
    THEN [rc |-> OK, mode |-> KEYDB_SEARCH_MODE_KEYGRIP,
          key |-> SubSeq(username, 2, Len(username))]
  ELSE [rc |-> OK, mode |-> KEYDB_SEARCH_MODE_SUBSTR, key |-> username]

Matches(desc, cert) ==
  IF desc.mode = KEYDB_SEARCH_MODE_SUBSTR THEN cert.name = desc.key
  ELSE cert.fpr = desc.key

\* The store and the handle while gpgsm_delete runs: store, the
\* certificates; kh, whether a handle exists; pos, the entry the handle is
\* at (0: before the first); eph, whether its searches see ephemeral
\* entries; locked; rc, what the last store function returned; calls, how
\* often each function that can fail was called; trace, the store
\* functions called with their results; logs and status, what was logged
\* and reported.
World(store) ==
  [store |-> store, kh |-> FALSE, pos |-> 0, eph |-> FALSE, locked |-> FALSE,
   rc |-> OK,
   calls |-> [fn \in {"new", "search", "get_cert", "lock", "delete"} |-> 0],
   trace |-> <<>>, logs |-> <<>>, status |-> <<>>]

\* A fault makes the at-th call of fn fail with err
NoFault == [fn |-> "none", at |-> 0, err |-> OK]
Fails(w, fn, fault) == fault.fn = fn /\ w.calls[fn] + 1 = fault.at

Called(w, fn, rc, arg) ==
  [w EXCEPT !.rc = rc,
            !.calls = [f \in DOMAIN @ |-> IF f = fn THEN @[f] + 1 ELSE @[f]],
            !.trace = Append(@, [fn |-> fn, rc |-> rc, arg |-> arg])]

Traced(w, fn, arg) ==
  [w EXCEPT !.trace = Append(@, [fn |-> fn, rc |-> OK, arg |-> arg])]

Log(w, text) == [w EXCEPT !.logs = Append(@, text)]

\* The one element of a set of one element; {F(x) : x \in {e}} works e out
\* once, however often F looks at x
Only(S) == CHOOSE x \in S : TRUE

sm_keydb_new(w, fault) ==
  IF Fails(w, "new", fault)
    THEN [Called(w, "new", fault.err, "") EXCEPT !.kh = FALSE]
  ELSE [Called(w, "new", OK, "") EXCEPT
          !.kh = TRUE, !.pos = 0, !.eph = FALSE, !.locked = FALSE]

sm_keydb_set_ephemeral(w, yes) == [Traced(w, "set_ephemeral", "") EXCEPT !.eph = yes]

\* The next entry after the handle's position that matches, skipping
\* ephemeral entries unless the handle asks for them
sm_keydb_search(w, desc, fault) ==
  LET search(v) ==
        LET hits == {i \in (v.pos + 1)..Len(v.store) :
                       /\ Matches(desc, v.store[i])
                       /\ v.eph \/ ~v.store[i].eph}
            rc == IF Fails(v, "search", fault) THEN fault.err
                  ELSE IF hits = {} THEN EOF ELSE OK
            pos == IF rc = OK THEN CHOOSE i \in hits : \A j \in hits : i <= j
                   ELSE IF rc = EOF THEN Len(v.store) ELSE v.pos
        IN [Called(v, "search", rc, desc.key) EXCEPT !.pos = pos]
  IN Only({search(v) : v \in {w}})

sm_keydb_get_cert(w, fault) ==
  Called(w, "get_cert", IF Fails(w, "get_cert", fault) THEN fault.err ELSE OK, "")

sm_keydb_lock(w, fault) ==
  IF Fails(w, "lock", fault) THEN Called(w, "lock", fault.err, "")
  ELSE [Called(w, "lock", OK, "") EXCEPT !.locked = TRUE]

sm_keydb_search_reset(w) == [Traced(w, "search_reset", "") EXCEPT !.pos = 0]

\* The entry the handle is at is removed; unlock releases the lock
sm_keydb_delete(w, unlock, fault) ==
  LET rc == IF Fails(w, "delete", fault) THEN fault.err ELSE OK
      done == Called(w, "delete", rc, IF unlock THEN "1" ELSE "0")
  IN [done EXCEPT
        !.store = IF rc = OK
                  THEN SubSeq(@, 1, w.pos - 1) \o SubSeq(@, w.pos + 1, Len(@))
                  ELSE @,
        !.locked = IF unlock THEN FALSE ELSE @]

sm_keydb_release(w) ==
  [Traced(w, "release", IF w.kh THEN "kh" ELSE NULL) EXCEPT
     !.kh = FALSE, !.locked = FALSE]

gpgsm_status2(w, no, text) == [w EXCEPT !.status = Append(@, <<no, text>>)]

\* The loop at next_ambigious: further matches with the fingerprint fpr are
\* counted, any other further match makes the name ambiguous
RECURSIVE next_ambigious(_, _, _, _, _)
next_ambigious(w, desc, fpr, duplicates, fault) ==
  LET got(s, g) ==
        IF g.rc = OK /\ g.store[g.pos].fpr = fpr
          THEN next_ambigious(g, desc, fpr, duplicates + 1, fault)
        ELSE [w |-> g, rc |-> GPG_ERR_AMBIGUOUS_NAME, duplicates |-> duplicates]
      searched(s) ==
        IF s.rc = EOF THEN [w |-> s, rc |-> OK, duplicates |-> duplicates]
        ELSE IF s.rc # OK THEN [w |-> s, rc |-> s.rc, duplicates |-> duplicates]
        ELSE Only({got(s, g) : g \in {sm_keydb_get_cert(s, fault)}})
  IN Only({searched(s) : s \in {sm_keydb_search(w, desc, fault)}})

\* (mutant) the loop runs once for every duplicate and no more
RECURSIVE delete_loop_short(_, _, _, _, _, _)
delete_loop_short(w, desc, duplicates, username, fault, verbose) ==
  LET deleted(d) ==
        IF d.rc # OK THEN [w |-> d, rc |-> d.rc]
        ELSE LET told == IF ~verbose THEN d
                         ELSE IF duplicates # 0
                           THEN Log(d, "duplicated certificate '" \o username
                                         \o "' deleted")
                         ELSE Log(d, "certificate '" \o username \o "' deleted")
             IN IF duplicates - 1 > 0
                  THEN delete_loop_short(told, desc, duplicates - 1, username, fault, verbose)
                ELSE [w |-> told, rc |-> OK]
      searched(s) ==
        IF s.rc # OK
          THEN [w |-> Log(s, "problem re-searching certificate"), rc |-> s.rc]
        ELSE Only({deleted(d) : d \in {sm_keydb_delete(s, duplicates = 0, fault)}})
  IN Only({searched(s) :
             s \in {sm_keydb_search(sm_keydb_search_reset(v), desc, fault) :
                      v \in {w}}})

\* do { ... } while (duplicates--)
RECURSIVE delete_loop(_, _, _, _, _, _)
delete_loop(w, desc, duplicates, username, fault, verbose) ==
  LET deleted(d) ==
        IF d.rc # OK THEN [w |-> d, rc |-> d.rc]
        ELSE LET told == IF ~verbose THEN d
                         ELSE IF duplicates # 0
                           THEN Log(d, "duplicated certificate '" \o username
                                         \o "' deleted")
                         ELSE Log(d, "certificate '" \o username \o "' deleted")
             IN IF duplicates # 0
                  THEN delete_loop(told, desc, duplicates - 1, username, fault, verbose)
                ELSE [w |-> told, rc |-> OK]
      searched(s) ==
        IF s.rc # OK
          THEN [w |-> Log(s, "problem re-searching certificate"), rc |-> s.rc]
        ELSE Only({deleted(d) : d \in {sm_keydb_delete(s, duplicates = 0, fault)}})
  IN Only({searched(s) :
             s \in {sm_keydb_search(sm_keydb_search_reset(v), desc, fault) :
                      v \in {w}}})

\* (mutant) the first match is taken and further matches are not looked at
delete_one_first_match(w0, username, fault, verbose) ==
  LET desc == classify_user_id(username)
      is_ephem == desc.mode \in {KEYDB_SEARCH_MODE_FPR, KEYDB_SEARCH_MODE_FPR20,
                                 KEYDB_SEARCH_MODE_FPR16, KEYDB_SEARCH_MODE_KEYGRIP}
      notfound(w, r) ==
        Log(w, "certificate '" \o username \o "' not found: " \o r)
      \* from the lock on
      locked(a, l) ==
        IF l.rc # OK
          THEN [w |-> sm_keydb_release(Log(l, "error locking keybox")), rc |-> l.rc]
        ELSE Only({[w |-> sm_keydb_release(loop.w), rc |-> loop.rc] :
                     loop \in {delete_loop(l, desc, a.duplicates, username,
                                           fault, verbose)}})
      \* a: what the first search and the look at further matches gave
      found(a) ==
        IF a.rc # OK
          THEN LET rc == IF a.rc = EOF THEN GPG_ERR_NO_PUBKEY ELSE a.rc
               IN [w |-> sm_keydb_release(
                           gpgsm_status2(notfound(a.w, rc), "DELETE_PROBLEM", "3")),
                   rc |-> rc]
        ELSE Only({locked(a, l) : l \in {sm_keydb_lock(a.w, fault)}})
      got(g) ==
        Only({found(a) :
                a \in {[w |-> g, rc |-> g.rc, duplicates |-> 0]}})
      searched(s) ==
        Only({got(g) : g \in {IF s.rc = OK THEN sm_keydb_get_cert(s, fault) ELSE s}})
      opened(n) ==
        IF ~n.kh
          THEN [w |-> sm_keydb_release(Log(n, "keydb_new failed")), rc |-> desc.rc]
        ELSE Only({searched(s) :
                     s \in {sm_keydb_search(
                              IF is_ephem THEN sm_keydb_set_ephemeral(n, TRUE) ELSE n,
                              desc, fault)}})
  IN
  IF desc.rc # OK
    THEN [w |-> sm_keydb_release(
                  gpgsm_status2(notfound(w0, desc.rc), "DELETE_PROBLEM", "1")),
          rc |-> desc.rc]
  ELSE Only({opened(n) : n \in {sm_keydb_new(w0, fault)}})

\* delete_one on the store as w0 has it: the store afterwards and the value
\* returned
delete_one(w0, username, fault, verbose) ==
  LET desc == classify_user_id(username)
      is_ephem == desc.mode \in {KEYDB_SEARCH_MODE_FPR, KEYDB_SEARCH_MODE_FPR20,
                                 KEYDB_SEARCH_MODE_FPR16, KEYDB_SEARCH_MODE_KEYGRIP}
      notfound(w, r) ==
        Log(w, "certificate '" \o username \o "' not found: " \o r)
      \* from the lock on
      locked(a, l) ==
        IF l.rc # OK
          THEN [w |-> sm_keydb_release(Log(l, "error locking keybox")), rc |-> l.rc]
        ELSE Only({[w |-> sm_keydb_release(loop.w), rc |-> loop.rc] :
                     loop \in {delete_loop(l, desc, a.duplicates, username,
                                           fault, verbose)}})
      \* a: what the first search and the look at further matches gave
      found(a) ==
        IF a.rc # OK
          THEN LET rc == IF a.rc = EOF THEN GPG_ERR_NO_PUBKEY ELSE a.rc
               IN [w |-> sm_keydb_release(
                           gpgsm_status2(notfound(a.w, rc), "DELETE_PROBLEM", "3")),
                   rc |-> rc]
        ELSE Only({locked(a, l) : l \in {sm_keydb_lock(a.w, fault)}})
      got(g) ==
        Only({found(a) :
                a \in {IF g.rc = OK /\ ~is_ephem
                       THEN next_ambigious(g, desc, g.store[g.pos].fpr, 0, fault)
                       ELSE [w |-> g, rc |-> g.rc, duplicates |-> 0]}})
      searched(s) ==
        Only({got(g) : g \in {IF s.rc = OK THEN sm_keydb_get_cert(s, fault) ELSE s}})
      opened(n) ==
        IF ~n.kh
          THEN [w |-> sm_keydb_release(Log(n, "keydb_new failed")), rc |-> desc.rc]
        ELSE Only({searched(s) :
                     s \in {sm_keydb_search(
                              IF is_ephem THEN sm_keydb_set_ephemeral(n, TRUE) ELSE n,
                              desc, fault)}})
  IN
  IF desc.rc # OK
    THEN [w |-> sm_keydb_release(
                  gpgsm_status2(notfound(w0, desc.rc), "DELETE_PROBLEM", "1")),
          rc |-> desc.rc]
  ELSE Only({opened(n) : n \in {sm_keydb_new(w0, fault)}})

\* for (; names; names = names->next): what each delete_one did, in order;
\* done holds, for every name handled, the store before and after, the
\* value returned and the store functions called
RECURSIVE delete_names(_, _, _, _, _)
delete_names(w, names, fault, verbose, done) ==
  IF names = <<>> THEN [w |-> w, rc |-> OK, done |-> done]
  ELSE LET this(r) == [name |-> Head(names), rc |-> r.rc,
                       before |-> w.store, after |-> r.w.store,
                       trace |-> SubSeq(r.w.trace, Len(w.trace) + 1,
                                        Len(r.w.trace))]
           handled(r, all) ==
             IF r.rc # OK
               THEN [w |-> Log(r.w, "deleting certificate \"" \o Head(names)
                                      \o "\" failed: " \o r.rc),
                     rc |-> r.rc, done |-> all]
             ELSE delete_names(r.w, Tail(names), fault, verbose, all)
       IN Only({Only({handled(r, all) : all \in {Append(done, this(r))}}) :
                  r \in {delete_one(w, Head(names), fault, verbose)}})

gpgsm_delete(store, names, fault, verbose) ==
  IF names = <<>>
    THEN [w |-> Log(World(store), "nothing to delete"), rc |-> GPG_ERR_NO_DATA,
          done |-> <<>>]
  ELSE Only({delete_names(w, names, fault, verbose, <<>>) : w \in {World(store)}})

--------------------------------------------------------------------------
(* learn *)

GPG_ERR_ASS_CANCELED == "GPG_ERR_ASS_CANCELED"
GPG_ERR_MISSING_CERT == "GPG_ERR_MISSING_CERT"
GPG_ERR_MISSING_ISSUER_CERT == "GPG_ERR_MISSING_ISSUER_CERT"

\* What the agent sends during LEARN --send, one event per line: a data
\* line ("D", bytes), an end-of-data marker ("END") or a status line ("S",
\* kw, rest).  An event carries what the collaborators do when the handler
\* turns to them: sink, what gpgsm_status returns (0 or not); mem, whether
\* get_membuf has a buffer to give; new, what ksba_cert_new returns; store,
\* what sm_keydb_store_cert does ("new", "existed" or "fail").
Event(t, bytes, kw, rest, sink, mem, new, store) ==
  [t |-> t, bytes |-> bytes, kw |-> kw, rest |-> rest,
   sink |-> sink, mem |-> mem, new |-> new, store |-> store]
Data(bytes) == Event("D", bytes, "", "", OK, TRUE, OK, "new")
End(sink, mem, new, store) == Event("END", <<>>, "", "", sink, mem, new, store)
Status(kw, rest, sink) == Event("S", <<>>, kw, rest, sink, TRUE, OK, "new")

\* ksba_cert_init_from_mem on the collected bytes: certificates are made of
\* the bytes "g", "v" and "m"; anything else, and nothing at all, is not one
ksba_cert_init_from_mem(buf) ==
  IF buf # <<>> /\ \A i \in 1..Len(buf) : buf[i] \in {"g", "v", "m"}
  THEN OK ELSE "GPG_ERR_BAD_BER"

\* gpgsm_basic_cert_check: a "v" makes the certificate invalid, an "m" makes
\* its issuer missing
gpgsm_basic_cert_check(buf) ==
  IF \E i \in 1..Len(buf) : buf[i] = "v" THEN "GPG_ERR_BAD_CERT"
  ELSE IF \E i \in 1..Len(buf) : buf[i] = "m" THEN GPG_ERR_MISSING_ISSUER_CERT
  ELSE OK

\* The handlers' context and effects while the transaction runs: error is
\* parm->error, data the bytes in the membuf, rc what the last handler
\* returned, at the index of the event being handled; reports are the
\* lines given to the progress sink, stored the certificates given to
\* sm_keydb_store_cert, lost the buffers taken from the membuf that nothing
\* frees.
LearnStart ==
  [error |-> OK, data |-> <<>>, rc |-> OK, at |-> 0,
   reports |-> <<>>, stored |-> <<>>, logs |-> <<>>, lost |-> 0]

Report(st, text, sink) ==
  Append(st.reports, [at |-> st.at, text |-> text, cancelled |-> sink # OK])

learn_status_cb(st, ev) ==
  IF has_leading_keyword(ev, "PROGRESS") THEN
    [st EXCEPT !.reports = Report(st, ev.rest, ev.sink),
               !.rc = IF ev.sink # OK THEN GPG_ERR_ASS_CANCELED ELSE OK]
  ELSE st

\* The last part of learn_cb, from gpgsm_basic_cert_check on
learn_cb_store(st, ev, verbose) ==
  LET rc == gpgsm_basic_cert_check(st.data)
      tell == \/ verbose > 1 /\ ev.store = "existed"
              \/ verbose > 0 /\ ev.store = "new"
  IN
  IF rc \notin {OK, GPG_ERR_MISSING_CERT, GPG_ERR_MISSING_ISSUER_CERT}
    THEN [st EXCEPT !.logs = Append(@, "invalid certificate"),
                    !.data = <<>>, !.lost = @ + 1]
  ELSE [st EXCEPT !.stored = Append(@, [at |-> st.at, cert |-> st.data]),
                  !.logs = IF ~tell THEN @
                           ELSE IF ev.store = "new"
                             THEN Append(@, "certificate imported")
                           ELSE Append(@, "certificate already in DB"),
                  !.data = <<>>, !.lost = @ + 1]

\* (mutant) the progress report is made after the certificate was handled
learn_cb_report_late(st, ev, verbose) ==
  IF st.error # OK THEN st
  ELSE IF ev.t = "D" THEN [st EXCEPT !.data = @ \o ev.bytes]
  ELSE IF ~ev.mem THEN [st EXCEPT !.error = GPG_ERR_ENOMEM]
  ELSE IF ev.new # OK
    THEN [st EXCEPT !.error = ev.new, !.lost = @ + 1]
  ELSE IF ksba_cert_init_from_mem(st.data) # OK
    THEN [st EXCEPT !.logs = Append(@, "failed to parse a certificate"),
                    !.error = ksba_cert_init_from_mem(st.data), !.lost = @ + 1]
  ELSE LET done == learn_cb_store(st, ev, verbose) IN
       [done EXCEPT !.reports = Report(st, "learncard C 0 0", ev.sink),
                    !.rc = IF ev.sink # OK THEN GPG_ERR_ASS_CANCELED ELSE OK]

\* One run of learn_cb, for a data line or for the end-of-data marker
learn_cb(st, ev, verbose) ==
  IF st.error # OK THEN st
  ELSE IF ev.t = "D" THEN [st EXCEPT !.data = @ \o ev.bytes]
  ELSE IF ~ev.mem THEN [st EXCEPT !.error = GPG_ERR_ENOMEM]
  ELSE IF ev.sink # OK
    THEN [st EXCEPT !.reports = Report(st, "learncard C 0 0", ev.sink),
                    !.rc = GPG_ERR_ASS_CANCELED, !.lost = @ + 1]
  ELSE IF ev.new # OK
    THEN [st EXCEPT !.reports = Report(st, "learncard C 0 0", ev.sink),
                    !.error = ev.new, !.lost = @ + 1]
  ELSE IF ksba_cert_init_from_mem(st.data) # OK
    THEN [st EXCEPT !.reports = Report(st, "learncard C 0 0", ev.sink),
                    !.logs = Append(@, "failed to parse a certificate"),
                    !.error = ksba_cert_init_from_mem(st.data), !.lost = @ + 1]
  ELSE learn_cb_store(
         [st EXCEPT !.reports = Report(st, "learncard C 0 0", ev.sink)],
         ev, verbose)

\* assuan_transact with learn_cb and learn_status_cb: the events are handled
\* in order and the first handler that fails ends the transaction
RECURSIVE learn_transact(_, _, _)
learn_transact(st, events, verbose) ==
  IF events = <<>> \/ st.rc # OK THEN st
  ELSE LET ev == Head(events)
           here == [st EXCEPT !.at = @ + 1]
       IN learn_transact(IF ev.t = "S" THEN learn_status_cb(here, ev)
                         ELSE learn_cb(here, ev, verbose),
                         Tail(events), verbose)

gpgsm_agent_learn(env) ==
  LET sa == start_agent(env.conn)
      st == learn_transact(LearnStart, env.events, env.verbose)
      rc == IF st.rc # OK THEN st.rc ELSE env.rcs[1]
  IN
  IF sa.rc # OK THEN Result(sa.rc, sa, <<>>, NULL, <<>>, LearnStart)
  ELSE Result(IF rc # OK THEN rc ELSE st.error, sa, <<"LEARN --send">>,
              rc, <<>>, st)

--------------------------------------------------------------------------
(* istrusted *)

NoFlags == [relax |-> FALSE, chain_model |-> FALSE, valid |-> FALSE]

\* One run of istrusted_status_cb on the flags
istrusted_status_cb(flags, line) ==
  IF has_leading_keyword(line, "TRUSTLISTFLAG") THEN
    IF has_leading_keyword(line.rest, "relax")
      THEN [flags EXCEPT !.relax = TRUE]
    ELSE IF has_leading_keyword(line.rest, "cm")
      THEN [flags EXCEPT !.chain_model = TRUE]
    ELSE flags
  ELSE flags

\* The status lines of one transaction, handed to istrusted_status_cb in order
RECURSIVE istrusted_status(_, _)
istrusted_status(flags, lines) ==
  IF lines = <<>> THEN flags
  ELSE istrusted_status(istrusted_status_cb(flags, Head(lines)), Tail(lines))

\* env.fpr is what gpgsm_get_fingerprint_hexstring(cert, GCRY_MD_SHA1) returns
gpgsm_agent_istrusted(cert, hexfpr, env) ==
  LET sa == start_agent(env.conn)
      fpr == IF hexfpr # NULL THEN hexfpr ELSE env.fpr
      line == snprintf("ISTRUSTED " \o fpr)
      flags == istrusted_status(NoFlags, env.status)
      rc == env.rcs[1]
  IN
  IF cert # NULL /\ hexfpr # NULL
    THEN Result(GPG_ERR_INV_ARG, NotStarted, <<>>, NULL, <<>>, NoFlags)
  ELSE IF sa.rc # OK THEN Result(sa.rc, sa, <<>>, NULL, <<>>, NoFlags)
  ELSE IF fpr = NULL
    THEN Result(GPG_ERR_GENERAL, sa, <<>>, NULL, <<>>, NoFlags)
  ELSE Result(rc, sa, <<line>>, rc, <<>>, [flags EXCEPT !.valid = (rc = OK)])

--------------------------------------------------------------------------
(* genkey and import_key *)

gpgsm_agent_genkey(keyparms, env) ==
  LET sa == start_agent(env.conn)
      none == [r_pubkey |-> NULLBUF]
      R(rc, sent) == Result(rc, sa, sent, NULL, <<>>, none)
      sexplen == gcry_sexp_canon_len(keyparms, 0)
      s2 == <<"RESET", "GENKEY">>
      t == TransactInq("inq_genkey_parms",
                       [sexp |-> SubSeq(keyparms, 1, sexplen)],
                       env.inq, env.rcs[2])
      mb == get_membuf(env.reply, env.mem)
  IN
  IF sa.rc # OK THEN R(sa.rc, <<>>)
  ELSE IF env.rcs[1] # OK THEN R(env.rcs[1], <<"RESET">>)
  ELSE IF sexplen = 0 THEN R(GPG_ERR_INV_VALUE, <<"RESET">>)
  ELSE IF t.rc # OK THEN Result(t.rc, sa, s2, t.rc, t.inq, none)
  ELSE IF mb.buf = NULLBUF THEN Result(GPG_ERR_ENOMEM, sa, s2, OK, t.inq, none)
  ELSE IF gcry_sexp_canon_len(mb.buf, mb.len) = 0
    THEN Result(GPG_ERR_INV_SEXP, sa, s2, OK, t.inq, none)
  ELSE Result(OK, sa, s2, OK, t.inq, [r_pubkey |-> mb.buf])

gpgsm_agent_readkey(fromcard, hexkeygrip, env) ==
  LET sa == start_agent(env.conn)
      none == [r_pubkey |-> NULLBUF]
      R(rc, sent) == Result(rc, sa, sent, NULL, <<>>, none)
      s2 == <<"RESET", snprintf((IF fromcard THEN "SCD " ELSE "") \o "READKEY "
                                  \o PrintfS(hexkeygrip))>>
      t == TransactInq("default_inq_cb", NULL, env.inq, env.rcs[2])
      mb == get_membuf(env.reply, env.mem)
  IN
  IF sa.rc # OK THEN R(sa.rc, <<>>)
  ELSE IF env.rcs[1] # OK THEN R(env.rcs[1], <<"RESET">>)
  ELSE IF hexkeygrip = NULL /\ env.ub = "crash" THEN R(SIGSEGV, <<"RESET">>)
  ELSE IF t.rc # OK THEN Result(t.rc, sa, s2, t.rc, t.inq, none)
  ELSE IF mb.buf = NULLBUF THEN Result(GPG_ERR_ENOMEM, sa, s2, OK, t.inq, none)
  ELSE IF gcry_sexp_canon_len(mb.buf, mb.len) = 0
    THEN Result(GPG_ERR_INV_SEXP, sa, s2, OK, t.inq, none)
  ELSE Result(OK, sa, s2, OK, t.inq, [r_pubkey |-> mb.buf])

gpgsm_agent_import_key(key, env) ==
  LET sa == start_agent(env.conn)
      t == TransactInq("inq_import_key_parms", [key |-> key],
                       env.inq, env.rcs[1])
  IN
  IF sa.rc # OK THEN Result(sa.rc, sa, <<>>, NULL, <<>>, NoOut)
  ELSE Result(t.rc, sa, <<"IMPORT_KEY">>, t.rc, t.inq, NoOut)

--------------------------------------------------------------------------
(* Environments *)

\* The environment of a call that sends n commands, the last of which has
\* callbacks and collects a reply.  conn is the connect result; rcs the
\* agent's final answer to each command; ub what the build does with a NULL
\* %s argument; inq the inquiries of the last command, reply the bytes it
\* returns and mem the state of the membuf that collected them.  The code
\* stops at the first command that fails, so at most one entry of rcs is an
\* error, and what a call never looks at is held at one value: nothing after
\* a failed connect, no inquiry unless the commands before the last
\* succeeded, no reply unless the last did.  The inquiries and the reply of
\* a transaction are handled by different callbacks that share no state:
\* the replies are varied in transactions without inquiries, the inquiries
\* in transactions that return the reply `good`.
NoMem == [oom |-> FALSE, fresh |-> <<>>]
NoScript == [inq |-> <<>>, reply |-> <<>>, mem |-> NoMem]

Env(conn, rcs, ub, sc) ==
  [conn |-> conn, rcs |-> rcs, ub |-> ub,
   inq |-> sc.inq, reply |-> sc.reply, mem |-> sc.mem]

Scripts(inquiries, replies, good) ==
  {[inq |-> i, reply |-> good, mem |-> NoMem] : i \in SeqsUpTo(inquiries, MaxInq)}
  \cup UNION {{[inq |-> <<>>, reply |-> r, mem |-> m] : m \in MemFor(r)} :
                r \in replies}

AllOK(n) == [i \in 1..n |-> OK]
FailsAt(n, k, e) == [i \in 1..n |-> IF i = k THEN e ELSE OK]

Envs(n, ubs, inquiries, replies, good) ==
  {Env(c, AllOK(n), "prints (null)", NoScript) : c \in ConnFor \ {OK}}
  \cup {Env(OK, FailsAt(n, k, e), u, NoScript) :
          k \in 1..(n - 1), e \in AgentErrs, u \in ubs}
  \cup {Env(OK, FailsAt(n, n, e), u, [NoScript EXCEPT !.inq = i]) :
          e \in AgentErrs, u \in ubs, i \in SeqsUpTo(inquiries, MaxInq)}
  \cup {Env(OK, AllOK(n), u, sc) :
          u \in ubs, sc \in Scripts(inquiries, replies, good)}

Sexp1a == <<"(", "1", ":", "a", ")">>
SignReplies ==
  {<<>>,
   Sexp1a,
   <<"(", "1", ":", "a">>,
   <<"(", "2", ":", "a", ")">>,
   <<"(", "1", ":", "a", ")", "x">>}

--------------------------------------------------------------------------
(* The caller *)

\* A call of operation op with arguments args in environment env, which did
\* and returned r
Do(op, args, env, r) ==
  /\ pc' = "returned"
  /\ call' = [op |-> op, args |-> args, env |-> env]
  /\ ret' = r
  /\ agent_ctx' = r.sa.ctx
  /\ shown' = r.sa.shown
  /\ agent_seen' = r.sa.seen
  /\ UNCHANGED <<opt, keybox>>

NoCall == [op |-> "none", args |-> <<>>, env |-> <<>>]
NoResult == Result(OK, [called |-> FALSE, rc |-> OK, tried |-> FALSE, logged |-> 0,
                        ctx |-> FALSE, shown |-> FALSE, seen |-> FALSE],
                   <<>>, NULL, <<>>, <<>>)

Pksign ==
  /\ pc = "idle"
  /\ \E keygrip \in {NULL, K39, K40}, desc \in DescArgs, digest \in Digests,
     digestalgo \in {GCRY_MD_SHA1, GCRY_MD_SHA256} :
       \E env \in Envs(5, UBFor(keygrip), DefaultInquiries, SignReplies, Sexp1a) :
         Do("pksign",
            [keygrip |-> keygrip, desc |-> desc, digest |-> digest,
             digestalgo |-> digestalgo],
            env, gpgsm_agent_pksign(keygrip, desc, digest, digestalgo, env))

SigBytes == {"A", ")"}
SigReplies == SeqsUpTo(SigBytes, MaxSig) \cup {Rep("A", 10), Rep("B", 128)}

\* The last command of the call got its reply
Replied(env, n) == env.conn = OK /\ env.rcs = AllOK(n)

ScdEnv(env, alloc, ndebug, junk) ==
  [conn |-> env.conn, rcs |-> env.rcs, ub |-> env.ub, inq |-> env.inq,
   reply |-> env.reply, mem |-> env.mem,
   alloc |-> alloc, ndebug |-> ndebug, junk |-> junk]

ScdPksign ==
  /\ pc = "idle"
  /\ \E keyid \in {NULL, "OPENPGP.3"}, desc \in {NULL}, digest \in Digests \ {<<>>},
        digestalgo \in DigestAlgos :
       \E e \in Envs(2, UBFor(keyid), DefaultInquiries, SigReplies, <<"A", ")">>) :
         \E alloc \in IF Replied(e, 2) THEN BOOLEAN ELSE {TRUE},
            ndebug \in IF Replied(e, 2) /\ (e.reply = <<>> \/ e.mem.oom)
                          THEN BOOLEAN ELSE {FALSE},
            junk \in IF Replied(e, 2) /\ e.mem.oom THEN {0, 1} ELSE {0} :
           LET env == ScdEnv(e, alloc, ndebug, junk) IN
           Do("scd_pksign",
              [keyid |-> keyid, desc |-> desc, digest |-> digest,
               digestalgo |-> digestalgo],
              env, gpgsm_scd_pksign(keyid, desc, digest, digestalgo, env))

DataBytes == {"A", ":"}
Plaintexts == SeqsUpTo(DataBytes, MaxData) \cup {Rep("A", 10)}

\* The PKDECRYPT reply for plaintext d: as the claims construct it, in the
\* legacy form, and as gpg-agent sends it (with a NUL after the parenthesis)
Current(d) == ValueTag \o Dec(Len(d)) \o <<":">> \o d \o <<")">>
Legacy(d) == Dec(Len(d)) \o <<":">> \o d
AgentForm(d) == Current(d) \o <<NUL>>

DecryptReplies ==
  {Current(d) : d \in Plaintexts} \cup {Legacy(d) : d \in Plaintexts}
    \cup {AgentForm(d) : d \in Plaintexts}
    \cup {<<>>, <<"x">>, <<"(", "5", ":", "v", "a", "l", "u", "x", "1", ":", "A", ")">>,
          <<"2", ":", "A">>, <<"-", "1", ":", "A", "A">>, <<"+", "1", ":", "A">>}

Ciphertexts == {NULLBUF, <<"(", "1", ":", "c", ")">>, <<"1", ":", "c">>}
GoodCiphertext == <<"(", "1", ":", "c", ")">>

CiphertextInquiries ==
  DefaultInquiries
    \cup {Inq("CIPHERTEXT", OK, NULL, OK), Inq("CIPHERTEXT", OK, NULL, SendErr)}

\* The environment of a call whose arguments are refused (valid is false):
\* nothing but the connect result, drawn from conns, can matter then.
EnvsIf(valid, conns, envs) ==
  IF valid THEN envs
  ELSE {Env(c, AllOK(5), "prints (null)", NoScript) : c \in conns}

Pkdecrypt ==
  /\ pc = "idle"
  /\ \E keygrip \in KeygripArgs, desc \in DescArgs, ciphertext \in Ciphertexts,
        outp \in BOOLEAN :
       /\ Cardinality({keygrip} \cap {NULL, K39, K41})
            + Cardinality({ciphertext} \ {GoodCiphertext})
            + Cardinality({outp} \ {TRUE}) <= 1
       /\ \E env \in EnvsIf(Len(keygrip) = 40 /\ keygrip # NULL
                               /\ ciphertext = GoodCiphertext /\ outp,
                             {OK},
                             Envs(4, {"prints (null)"}, CiphertextInquiries,
                                  DecryptReplies, Current(<<"A">>) \o <<NUL>>)) :
            Do("pkdecrypt",
               [keygrip |-> keygrip, desc |-> desc, ciphertext |-> ciphertext,
                outp |-> outp],
               env, gpgsm_agent_pkdecrypt(keygrip, desc, ciphertext, outp, env))

NoInquiries == {}
NoReplies == {}
QueryEnvs(n, inquiries) ==
  Envs(n, {"prints (null)"}, inquiries, NoReplies, <<>>)

Havekey ==
  /\ pc = "idle"
  /\ \E hexkeygrip \in KeygripArgs :
       \E env \in EnvsIf(Len(hexkeygrip) = 40 /\ hexkeygrip # NULL, ConnFor,
                         QueryEnvs(1, NoInquiries)) :
         Do("havekey", [hexkeygrip |-> hexkeygrip], env,
            gpgsm_agent_havekey(hexkeygrip, env))

Passwd ==
  /\ pc = "idle"
  /\ \E hexkeygrip \in KeygripArgs, desc \in DescArgs :
       \E env \in EnvsIf(Len(hexkeygrip) = 40 /\ hexkeygrip # NULL, ConnFor,
                         QueryEnvs(2, DefaultInquiries)) :
         Do("passwd", [hexkeygrip |-> hexkeygrip, desc |-> desc], env,
            gpgsm_agent_passwd(hexkeygrip, desc, env))

St(kw, rest) == [kw |-> kw, rest |-> rest]

\* KEYINFO status lines, the text after the keyword: "g T SN i", "g T S:N -",
\* "g D - -", "g T XY" (nothing after the serial number), "g T  x" (two
\* blanks after the T), and the first under another keyword
KeyinfoStatus ==
  {St("KEYINFO", <<"g", " ", "T", " ", "S", "N", " ", "i">>),
   St("KEYINFO", <<"g", " ", "T", " ", "S", ":", "N", " ", "-">>),
   St("KEYINFO", <<"g", " ", "D", " ", "-", " ", "-">>),
   St("KEYINFO", <<"g", " ", "T", " ", "X", "Y">>),
   St("KEYINFO", <<"g", " ", "T", " ", " ", "x">>),
   St("PROGRESS", <<"g", " ", "T", " ", "S", "N", " ", "i">>)}

\* The status lines and allocation results a transaction can meet; they
\* are held at one value for a call that has no transaction
WithStatus(envs, statuses, valid) ==
  UNION {{e @@ [status |-> st, alloc |-> al] :
            st \in IF valid /\ e.conn = OK
                   THEN SeqsUpTo(statuses, MaxStatus) ELSE {<<>>},
            al \in IF valid /\ e.conn = OK /\ e.rcs[1] = OK
                   THEN BOOLEAN ELSE {TRUE}} :
         e \in envs}

Keyinfo ==
  /\ pc = "idle"
  /\ \E hexkeygrip \in KeygripArgs :
       LET valid == Len(hexkeygrip) = 40 /\ hexkeygrip # NULL IN
       \E env \in WithStatus(EnvsIf(valid, ConnFor, QueryEnvs(1, NoInquiries)),
                             KeyinfoStatus, valid) :
         Do("keyinfo", [hexkeygrip |-> hexkeygrip], env,
            gpgsm_agent_keyinfo(hexkeygrip, env))

ExportReplies == {<<>>, Sexp1a}

ExportKey ==
  /\ pc = "idle"
  /\ \E keygrip \in {NULL, K39, K40}, desc \in DescArgs :
       \E env \in Envs(2, UBFor(keygrip), DefaultInquiries, ExportReplies, Sexp1a) :
         Do("export_key", [keygrip |-> keygrip, desc |-> desc], env,
            gpgsm_agent_export_key(keygrip, desc, env))

Kw(k) == [kw |-> k, rest |-> ""]
TrustStatus ==
  {St("TRUSTLISTFLAG", Kw("relax")), St("TRUSTLISTFLAG", Kw("cm")),
   St("TRUSTLISTFLAG", Kw("other")), St("FOO", Kw("relax"))}

F40 == "A9993E364706816ABA3E25717850C26C9CD0D89D"
FFFF == "FFFFFFFFFFFFFFFFFFFFFFFFFFFFFFFFFFFFFFFF"

\* What gpgsm_get_fingerprint_hexstring can return for cert: NULL when it
\* cannot allocate, the fingerprint otherwise; for no certificate at all the
\* hashing fails and the result is what the collaborator makes of that.
FprFor(cert) == IF cert = NULL THEN {NULL, FFFF} ELSE {NULL, F40}

Istrusted ==
  /\ pc = "idle"
  /\ \E cert \in {NULL, "cert"}, hexfpr \in {NULL, F40} :
       LET args == cert = NULL \/ hexfpr = NULL IN
       \E env \in WithStatus(EnvsIf(args, {OK}, QueryEnvs(1, NoInquiries)),
                             TrustStatus, args),
          fpr \in IF args /\ hexfpr = NULL THEN FprFor(cert) ELSE {NULL} :
         /\ (fpr = NULL /\ hexfpr = NULL) => (env.rcs[1] = OK /\ env.status = <<>>)
         /\ Do("istrusted", [cert |-> cert, hexfpr |-> hexfpr],
               env @@ [fpr |-> fpr],
               gpgsm_agent_istrusted(cert, hexfpr, env @@ [fpr |-> fpr]))

KeyparmArgs == {NULLBUF, Sexp1a, <<"1", ":", "a">>}
GenkeyInquiries ==
  DefaultInquiries
    \cup {Inq("KEYPARAM", OK, NULL, OK), Inq("KEYPARAM", OK, NULL, SendErr)}

Genkey ==
  /\ pc = "idle"
  /\ \E keyparms \in KeyparmArgs :
       \E env \in IF keyparms = Sexp1a
                  THEN Envs(2, {"prints (null)"}, GenkeyInquiries,
                            SignReplies, Sexp1a)
                  ELSE QueryEnvs(1, NoInquiries) :
         Do("genkey", [keyparms |-> keyparms], env,
            gpgsm_agent_genkey(keyparms, env))

Readkey ==
  /\ pc = "idle"
  /\ \E fromcard \in BOOLEAN, hexkeygrip \in {NULL, K40} :
       \E env \in Envs(2, UBFor(hexkeygrip), DefaultInquiries, SignReplies, Sexp1a) :
         Do("readkey", [fromcard |-> fromcard, hexkeygrip |-> hexkeygrip], env,
            gpgsm_agent_readkey(fromcard, hexkeygrip, env))

DescMsgArgs == {NULL, "", "a b+%"}
PassphraseReplies == {<<>>, <<"p", "w">>}

AskPassphrase ==
  /\ pc = "idle"
  /\ \E desc_msg \in DescMsgArgs, repeat \in BOOLEAN :
       \E env \in Envs(1, IF desc_msg \in {NULL, ""} THEN UBNull
                          ELSE {"prints (null)"},
                       DefaultInquiries, PassphraseReplies, <<"p", "w">>) :
         \E esc \in IF /\ desc_msg \notin {NULL, ""} /\ env.conn = OK
                       /\ env.rcs[1] = OK /\ env.inq = <<>>
                       /\ env.reply = <<"p", "w">> /\ ~env.mem.oom
                    THEN BOOLEAN ELSE {TRUE} :
           Do("ask_passphrase", [desc_msg |-> desc_msg, repeat |-> repeat],
              env @@ [esc |-> esc],
              gpgsm_agent_ask_passphrase(desc_msg, repeat, env @@ [esc |-> esc]))

KeyArgs == {<<>>, <<"k", "e", "y">>}
ImportInquiries ==
  DefaultInquiries
    \cup {Inq("KEYDATA", OK, NULL, OK), Inq("KEYDATA", OK, NULL, SendErr)}

ImportKey ==
  /\ pc = "idle"
  /\ \E key \in KeyArgs :
       \E env \in QueryEnvs(1, ImportInquiries) :
         Do("import_key", [key |-> key], env, gpgsm_agent_import_key(key, env))

\* Status lines of SCD LEARN --force
KeypairStatus ==
  {Chars("KEYPAIRINFO g1 k1"),
   Chars("KEYPAIRINFO g2 k2 x y"),
   Chars("KEYPAIRINFO g3"),
   Chars("KEYPAIRINFO  g4 \t k4  x"),
   Chars("KEYPAIRINFO"),
   Chars("SERIALNO g5 k5"),
   Chars("KEYPAIRINFOX g6 k6")}

\* Status lines vary in a transaction without inquiries, and inquiries in
\* one with a single status line
KeypairEnvs ==
  {Env(c, AllOK(1), "prints (null)", NoScript) @@ [status |-> <<>>] :
     c \in ConnFor \ {OK}}
  \cup {Env(OK, <<e>>, "prints (null)", NoScript) @@ [status |-> st] :
          e \in TransactRc, st \in SeqsUpTo(KeypairStatus, MaxStatus)}
  \cup {Env(OK, <<e>>, "prints (null)", [NoScript EXCEPT !.inq = i])
          @@ [status |-> <<Chars("KEYPAIRINFO g1 k1")>>] :
          e \in TransactRc, i \in SeqsUpTo(DefaultInquiries, MaxInq) \ {<<>>}}

ScdKeypairinfo ==
  /\ pc = "idle"
  /\ \E env \in KeypairEnvs :
       Do("scd_keypairinfo", <<>>, env, gpgsm_agent_scd_keypairinfo(env))

\* SERIALNO status lines as the agent sends them: a serial number followed
\* by more fields, one after two blanks, one cut short by a colon, one with
\* no hex digit, a bare keyword, a longer keyword and another keyword
SerialnoStatus ==
  {Chars("SERIALNO D276 0"),
   Chars("SERIALNO  1f"),
   Chars("SERIALNO A2:6"),
   Chars("SERIALNO xyz"),
   Chars("SERIALNO"),
   Chars("SERIALNOX 12"),
   Chars("KEYPAIRINFO ab cd")}

\* xtrymalloc is reached only for a SERIALNO line
SerialnoAllocs(status) ==
  {a \in [1..Len(status) -> BOOLEAN] :
     \A i \in 1..Len(status) :
       ~(SkipWord(status[i], 0) = 8
           /\ SubSeq(status[i], 1, 8) = Chars("SERIALNO")) => a[i]}

SerialnoEnvs ==
  {Env(c, AllOK(1), "prints (null)", NoScript)
     @@ [status |-> <<>>, allocs |-> <<>>] : c \in ConnFor \ {OK}}
  \cup UNION {{Env(OK, <<e>>, "prints (null)", NoScript)
                 @@ [status |-> st, allocs |-> a] :
                 e \in TransactRc, a \in SerialnoAllocs(st)} :
              st \in SeqsUpTo(SerialnoStatus, MaxStatus)}
  \cup {Env(OK, <<e>>, "prints (null)", [NoScript EXCEPT !.inq = i])
          @@ [status |-> <<Chars("SERIALNO D276 0")>>, allocs |-> <<TRUE>>] :
          e \in TransactRc, i \in SeqsUpTo(DefaultInquiries, MaxInq) \ {<<>>}}

ScdSerialno ==
  /\ pc = "idle"
  /\ \E env \in SerialnoEnvs :
       Do("scd_serialno", <<>>, env, gpgsm_agent_scd_serialno(env))

\* What the agent sends on LEARN --send.  Certificates arrive in one or more
\* data lines; a cancelling sink ends the transaction, so it comes last; the
\* rarer outcomes (no memory, a full keybox, a certificate already known, a
\* card that reports something else) come with one certificate.
CertBytes == {"g", "b", "v"}
SINK_CANCEL == "cancel"
LearnCore ==
  {Data(<<b>>) : b \in CertBytes}
  \cup {End(OK, TRUE, OK, "new"), Status("PROGRESS", "learncard k 0 0", OK)}
LearnCancel ==
  {End(SINK_CANCEL, TRUE, OK, "new"),
   Status("PROGRESS", "learncard k 0 0", SINK_CANCEL)}
LearnRare ==
  {<<Data(<<"g">>), End(OK, FALSE, OK, "new")>>,
   <<Data(<<"g">>), End(OK, TRUE, GPG_ERR_ENOMEM, "new")>>,
   <<Data(<<"g">>), End(OK, TRUE, OK, "existed")>>,
   <<Data(<<"g">>), End(OK, TRUE, OK, "fail")>>,
   <<Data(<<"m">>), End(OK, TRUE, OK, "new")>>,
   <<Status("SERIALNO", "D27600", OK), Status("PROGRESS", "", SINK_CANCEL)>>}
LearnEvents ==
  SeqsUpTo(LearnCore, MaxLearn)
  \cup {Append(s, c) : s \in SeqsUpTo(LearnCore, MaxLearn - 1), c \in LearnCancel}

LearnEnv(conn, e, events, verbose) ==
  Env(conn, <<e>>, "prints (null)", NoScript)
  @@ [events |-> events, verbose |-> verbose]

LearnEnvs ==
  {LearnEnv(c, OK, <<>>, 0) : c \in ConnFor \ {OK}}
  \cup {LearnEnv(OK, e, ev, 0) : e \in TransactRc, ev \in LearnEvents}
  \cup {LearnEnv(OK, OK, ev, v) : ev \in LearnRare, v \in 0..2}

Learn ==
  /\ pc = "idle"
  /\ \E env \in LearnEnvs : Do("learn", <<>>, env, gpgsm_agent_learn(env))

\* The caller takes the result; a process that died makes no further call
Return ==
  /\ pc = "returned"
  /\ ret.rc \notin {SIGSEGV, SIGABRT}
  /\ pc' = "idle"
  /\ call' = NoCall
  /\ ret' = NoResult
  /\ UNCHANGED <<agent_ctx, shown, agent_seen, opt, keybox>>

Init ==
  /\ agent_ctx = FALSE
  /\ shown = FALSE
  /\ agent_seen = FALSE
  /\ opt \in [autostart : BOOLEAN]
  /\ pc = "idle"
  /\ call = NoCall
  /\ ret = NoResult
  /\ keybox = <<>>

Next ==
  \/ Pksign
  \/ ScdPksign
  \/ Pkdecrypt
  \/ Havekey
  \/ Passwd
  \/ Keyinfo
  \/ ExportKey
  \/ Istrusted
  \/ Genkey
  \/ Readkey
  \/ AskPassphrase
  \/ ImportKey
  \/ ScdKeypairinfo
  \/ ScdSerialno
  \/ Learn
  \/ Return

Spec == Init /\ [][Next]_vars

--------------------------------------------------------------------------
(* gpgsm --delete-keys: the store and the calls of gpgsm_delete *)

\* Two certificates that share the name "alice", and an ephemeral copy of
\* the first
StoredCerts ==
  {Cert("A", "alice", FALSE), Cert("B", "alice", FALSE), Cert("A", "alice", TRUE)}

\* An unusable name, a name, and the fingerprint of the first certificate
DeleteNames == {"", "alice", "0xA"}

Faults ==
  {NoFault}
  \cup {[fn |-> fn, at |-> at, err |-> "GPG_ERR_EIO"] :
          fn \in {"new", "search", "get_cert", "lock", "delete"},
          at \in 1..MaxFault}

Delete ==
  /\ pc = "idle"
  /\ \E names \in SeqsUpTo(DeleteNames, MaxNames), fault \in Faults :
       \E verbose \in IF fault = NoFault /\ Len(names) = 1
                       THEN BOOLEAN ELSE {FALSE} :
         LET r == gpgsm_delete(keybox, names, fault, verbose) IN
         /\ pc' = "returned"
         /\ call' = [op |-> "delete", args |-> [names |-> names],
                     env |-> [store |-> keybox, fault |-> fault,
                              verbose |-> verbose]]
         /\ ret' = Result(r.rc, NotStarted, <<>>, NULL, <<>>,
                          [done |-> r.done, trace |-> r.w.trace,
                           logs |-> r.w.logs, status |-> r.w.status])
         /\ keybox' = r.w.store
         /\ UNCHANGED <<agent_ctx, shown, agent_seen, opt>>

DeleteInit ==
  /\ agent_ctx = FALSE
  /\ shown = FALSE
  /\ agent_seen = FALSE
  /\ opt = [autostart |-> TRUE]
  /\ pc = "idle"
  /\ call = NoCall
  /\ ret = NoResult
  /\ keybox \in SeqsUpTo(StoredCerts, MaxStore)

DeleteNext ==
  \/ Delete
  \/ Return

DeleteSpec == DeleteInit /\ [][DeleteNext]_vars

--------------------------------------------------------------------------
(* Claims *)

Returned(op) == pc = "returned" /\ call.op = op

\* C1: a successful sign call sent exactly RESET, SIGKEY <keygrip>,
\* SETKEYDESC <desc> (if and only if a description was supplied),
\* SETHASH <algo> <hex-digest>, PKSIGN, in this order and nothing else, and
\* the result it returns passes canonical S-expression validation.
C1_SignSequence ==
  (Returned("pksign") /\ ret.rc = OK /\ call.args.keygrip # NULL) =>
    /\ ret.sent =
         <<"RESET", "SIGKEY " \o call.args.keygrip>>
           \o (IF call.args.desc # NULL
               THEN <<"SETKEYDESC " \o call.args.desc>> ELSE <<>>)
           \o <<"SETHASH " \o ToString(call.args.digestalgo) \o " "
                  \o HexStr(call.args.digest),
                "PKSIGN">>
    /\ ret.out.r_buf # NULLBUF
    /\ gcry_sexp_canon_len(ret.out.r_buf, ret.out.r_buflen) # 0

\* C1's case: the 20-byte digest is signed without a description, and with one
C1_Witness ==
  /\ Returned("pksign") /\ ret.rc = OK
  /\ call.args.digest = Digest20 /\ call.args.desc = "desc"
  /\ ret.sent = <<"RESET", "SIGKEY " \o K40, "SETKEYDESC desc",
                  "SETHASH 2 14212E3B4855626F7C8996A3B0BDCAD7E4F1FE0B", "PKSIGN">>
  /\ ret.out.r_buf = <<"(", "1", ":", "a", ")">>

LineOverflow(digest) == 2 * Len(digest) + 50 > ASSUAN_LINELENGTH

\* C2: sign and card-sign with a digest whose hex form does not fit the line
\* (2*digestlen + 50 > the line length) return InvalidValue and make no
\* attempt to contact the agent: the session is not acquired and no command
\* line is sent.
C2_OverflowRejectedBeforeContact ==
  ((Returned("pksign")
      \/ (Returned("scd_pksign") /\ hashopt(call.args.digestalgo) # NULL))
   /\ LineOverflow(call.args.digest)) =>
    /\ ret.rc = GPG_ERR_INV_VALUE
    /\ ~ret.sa.called
    /\ ret.sent = <<>>

\* C3: card-sign with a digest algorithm outside {SHA1, RIPEMD160, MD5,
\* SHA256} returns UnsupportedDigestAlgorithm without contacting the agent:
\* start_agent is not called, no command is sent, and the session state
\* (connection, agent_seen, the logged note) is what it was before the call.
C3_UnsupportedAlgo ==
  [][(pc = "idle" /\ call'.op = "scd_pksign"
        /\ call'.args.digestalgo \notin
             {GCRY_MD_SHA1, GCRY_MD_RMD160, GCRY_MD_MD5, GCRY_MD_SHA256}) =>
       /\ ret'.rc = GPG_ERR_DIGEST_ALGO
       /\ ~ret'.sa.called /\ ~ret'.sa.tried
       /\ ret'.sent = <<>>
       /\ ret'.out.r_buf = NULLBUF
       /\ UNCHANGED <<agent_ctx, agent_seen, shown>>]_vars

\* C3's case: the call is made with SHA384 while a session is held, and
\* with none
C3_Witness ==
  /\ Returned("scd_pksign") /\ call.args.digestalgo = 9
  /\ ret.rc = GPG_ERR_DIGEST_ALGO
  /\ agent_ctx

\* The PKDECRYPT transaction succeeded and its reply was collected
Decrypted ==
  Returned("pkdecrypt") /\ ret.trans = OK /\ ~call.env.mem.oom

\* C5: when the agent's PKDECRYPT reply is exactly "(5:value<len>:<data>)",
\* decrypt succeeds and returns exactly data, with result length <len>, for
\* every data.
C5_ExtractLeftInverse ==
  \A d \in Plaintexts :
    (Decrypted /\ call.env.reply = Current(d)) =>
      /\ ret.rc = OK
      /\ ret.out.r_buflen = Len(d)
      /\ SubSeq(ret.out.r_buf, 1, Len(d)) = d

\* C6: for the same plaintext, the legacy reply "<len>:<data>" and the
\* current reply "(5:value<len>:<data>)" give the same outcome: both
\* succeed, with the same output bytes and length.  Stated on a call that
\* got the legacy reply, against what the extraction makes of the current
\* reply for the same plaintext.
C6_LegacyAndCurrentAgree ==
  \A d \in Plaintexts :
    (Decrypted /\ call.env.reply = Legacy(d) /\ d # <<>>) =>
      LET cur == extract_value(Current(d) \o <<NUL>>, Len(Current(d)) + 1) IN
      /\ ret.rc = OK
      /\ cur.rc = OK
      /\ cur.out.r_buflen = ret.out.r_buflen
      /\ SubSeq(cur.out.r_buf, 1, cur.out.r_buflen)
           = SubSeq(ret.out.r_buf, 1, ret.out.r_buflen)

Digits(n) == IF n < 10 THEN 1 ELSE IF n < 100 THEN 2 ELSE 3

\* The card returned the non-empty raw signature env.reply and card-sign
\* returned a result for it
CardSigned ==
  /\ Returned("scd_pksign") /\ ret.rc = OK /\ ret.out.r_buf # NULLBUF
  /\ ~call.env.mem.oom /\ Len(call.env.reply) > 0

\* C7 (as claimed): the wrapped result passes canonical validation and the
\* length card-sign reports equals the canonical length
\* 20 + digits(len) + 1 + len + 3.
C7_ReportedLengthIsCanonical ==
  CardSigned =>
    /\ gcry_sexp_canon_len(ret.out.r_buf, ret.out.r_buflen) # 0
    /\ ret.out.r_buflen
         = 20 + Digits(Len(call.env.reply)) + 1 + Len(call.env.reply) + 3

\* C7 (amended): for every non-empty raw signature s the result is
\* "(7:sig-val(3:rsa(1:s<len>:<bytes>)))", it passes canonical validation
\* with canonical length 20 + digits(len) + 1 + len + 3, and the length
\* card-sign reports is 36 + len, the size of the buffer it allocated.
C7_WrappedSignature ==
  CardSigned =>
    LET s == call.env.reply
        n == 20 + Digits(Len(s)) + 1 + Len(s) + 3
    IN /\ SubSeq(ret.out.r_buf, 1, n)
            = SigValPrefix \o Dec(Len(s)) \o <<":">> \o s \o <<")", ")", ")">>
       /\ gcry_sexp_canon_len(ret.out.r_buf, ret.out.r_buflen) = n
       /\ ret.out.r_buflen = 36 + Len(s)
       /\ ret.out.r_buflen > n

\* C7's case: a 128-byte signature, whose length has three digits
C7_Witness ==
  /\ CardSigned /\ Len(call.env.reply) = 128
  /\ ret.out.r_buflen = 164
  /\ gcry_sexp_canon_len(ret.out.r_buf, ret.out.r_buflen) = 155

HexChars ==
  {"0", "1", "2", "3", "4", "5", "6", "7", "8", "9",
   "A", "B", "C", "D", "E", "F", "a", "b", "c", "d", "e", "f"}

\* k is absent or is not 40 hex characters
BadKeygrip(k) ==
  \/ k = NULL
  \/ Len(k) # 40
  \/ \E i \in 1..Len(k) : SubSeq(k, i, i) \notin HexChars

KeygripOps ==
  {"pksign", "pkdecrypt", "havekey", "passwd", "keyinfo", "export_key"}

KeygripOf(c) ==
  IF c.op \in {"havekey", "passwd", "keyinfo"}
  THEN c.args.hexkeygrip ELSE c.args.keygrip

\* C4: every operation that takes a keygrip (sign, decrypt, havekey, passwd,
\* keyinfo, export_key) rejects a keygrip that is absent or is not exactly 40
\* hex characters before contacting the agent: start_agent is not called
\* (no connect attempt, the agent is not marked as seen) and no command
\* line is sent.
C4_KeygripRejectedBeforeContact ==
  (pc = "returned" /\ call.op \in KeygripOps /\ BadKeygrip(KeygripOf(call))) =>
    /\ ret.rc \notin {OK, SIGSEGV}
    /\ ~ret.sa.called
    /\ ret.sent = <<>>

\* C8: for every istrusted call, valid is set only when the ISTRUSTED
\* transaction succeeds, and on every error return (argument error,
\* connection failure, fingerprint failure, a transaction that fails after
\* TRUSTLISTFLAG status lines) relax, chain_model and valid are all false.
C8_FlagsClearedOnError ==
  Returned("istrusted") =>
    /\ ret.out.valid => (ret.rc = OK /\ ret.trans = OK)
    /\ ret.rc # OK => ret.out = NoFlags

\* C9: istrusted returns InvalidArgument without sending ISTRUSTED both when
\* a certificate and a fingerprint are supplied and when neither is; it
\* sends ISTRUSTED only when exactly one of the two is supplied.
C9_ExactlyOneOfCertAndFingerprint ==
  Returned("istrusted") =>
    LET one == (call.args.cert = NULL) # (call.args.hexfpr = NULL) IN
    /\ ~one => (ret.rc = GPG_ERR_INV_ARG /\ ret.sent = <<>>)
    /\ ret.sent # <<>> => one

\* C10: when a PINENTRY_LAUNCHED inquiry is relayed to the UI and the relay
\* fails, the inquiry handler (the default one, or an override that falls
\* through to it) still reports success, and the transaction is not failed
\* by the relay error.
C10_RelayFailureNotFatal ==
  pc = "returned" =>
    \A i \in 1..Len(ret.inq) :
      (ret.inq[i].relayed /\ call.env.inq[i].relay # OK) =>
        (ret.inq[i].err = OK /\ ret.trans # RelayErr)

\* The keyword the inquiry handler of an operation answers itself
OwnKeyword(op) ==
  CASE op = "pkdecrypt" -> "CIPHERTEXT"
    [] op = "genkey" -> "KEYPARAM"
    [] op = "import_key" -> "KEYDATA"
    [] OTHER -> "PINENTRY_LAUNCHED"

PassphraseKeywords == {"PASSPHRASE", "NEW_PASSPHRASE"}

\* The inquiry ev is one the handler of op acts on
Recognized(op, ev) ==
  \/ ev.kw \in {"PINENTRY_LAUNCHED", OwnKeyword(op)}
  \/ ev.kw \in PassphraseKeywords /\ ev.static # NULL

\* The agent's answer to the last command of the call
FinalAnswer == call.env.rcs[Len(call.env.rcs)]

\* C11: for an inquiry whose keyword the active handler does not recognize
\* (PASSPHRASE and NEW_PASSPHRASE without a static passphrase included) the
\* handler sends no data, does not call the relay and returns success; the
\* transaction goes on to the next inquiry or to the agent's final answer.
C11_UnknownInquiryIgnored ==
  pc = "returned" =>
    \A i \in 1..Len(ret.inq) :
      ~Recognized(call.op, call.env.inq[i]) =>
        /\ ret.inq[i].sends = <<>>
        /\ ~ret.inq[i].relayed
        /\ ret.inq[i].err = OK
        /\ i < Len(call.env.inq) => Len(ret.inq) > i
        /\ i = Len(call.env.inq) => ret.trans = FinalAnswer

\* C11's cases: an unknown keyword under the default handler, and a
\* PASSPHRASE inquiry without static passphrase under the decrypt handler
C11_Witness ==
  /\ pc = "returned" /\ Len(ret.inq) = 1 /\ ret.rc = OK
  /\ \/ call.op = "passwd" /\ ret.inq[1].line.kw = "FOO"
     \/ /\ call.op = "pkdecrypt" /\ ret.inq[1].line.kw = "PASSPHRASE"
        /\ call.env.inq[1].static = NULL
  /\ ret.inq[1].logs = <<"ignoring gpg-agent inquiry">>

\* C12: with a static passphrase configured, a PASSPHRASE or NEW_PASSPHRASE
\* inquiry is answered by exactly one send of the passphrase's bytes, the
\* relay is not called, and the handler returns what the send returned.
C12_StaticPassphraseSent ==
  pc = "returned" =>
    \A i \in 1..Len(ret.inq) :
      LET ev == call.env.inq[i] IN
      (ev.kw \in PassphraseKeywords /\ ev.static # NULL) =>
        /\ Len(ret.inq[i].sends) = 1
        /\ ret.inq[i].sends[1].data = ev.static
        /\ ~ret.inq[i].relayed
        /\ ret.inq[i].err = ev.send

\* C12's case: NEW_PASSPHRASE answered with the static passphrase
C12_Witness ==
  /\ pc = "returned" /\ Len(ret.inq) = 1
  /\ ret.inq[1].line.kw = "NEW_PASSPHRASE"
  /\ ret.inq[1].sends = <<[data |-> "secret", conf |-> FALSE]>>
  /\ ret.rc = OK

\* The keywords whose answer carries secret or operation data
SecretKeywords ==
  {"CIPHERTEXT", "KEYPARAM", "KEYDATA", "PASSPHRASE", "NEW_PASSPHRASE"}

\* C13: every payload sent in answer to a CIPHERTEXT, KEYPARAM, KEYDATA,
\* PASSPHRASE or NEW_PASSPHRASE inquiry is sent while the channel is in
\* confidential mode, and the channel is out of confidential mode when the
\* handler returns, whether the send succeeded or failed.
C13_SecretsSentConfidential ==
  pc = "returned" =>
    \A i \in 1..Len(ret.inq) :
      ret.inq[i].line.kw \in SecretKeywords =>
        /\ \A j \in 1..Len(ret.inq[i].sends) : ret.inq[i].sends[j].conf
        /\ ~ret.inq[i].conf

\* A step that is a call of an operation
IsCall == pc = "idle" /\ pc' = "returned"

\* C14: with auto-start disabled and no agent reachable, the message "no
\* gpg-agent running in this session" is logged exactly once: by the first
\* acquire that fails for want of an agent (the flag shown is still clear
\* then), and by no later one (the flag stays set for the process's life).
C14_NoAgentNoteOnce ==
  [][/\ shown => shown'
     /\ IsCall =>
          LET sa == ret'.sa
              noagent == sa.tried /\ ~opt.autostart /\ sa.rc = GPG_ERR_NO_AGENT
          IN /\ sa.logged \in {0, 1}
             /\ noagent => (sa.logged = (IF shown THEN 0 ELSE 1) /\ shown')
             /\ sa.logged = 1 => (noagent /\ ~shown)
             /\ ~noagent => shown' = shown]_vars

\* C14's case: a later failed acquire, after the one that logged the note
C14_Witness ==
  /\ pc = "returned" /\ ret.sa.tried /\ ret.sa.rc = GPG_ERR_NO_AGENT
  /\ ~opt.autostart /\ shown /\ ret.sa.logged = 0

\* C15: a connect attempt is made only when no session is held; after a
\* successful acquire every later acquire succeeds on the same session
\* without a connect attempt; a failed acquire leaves no session, its error
\* is the operation's result and no command is sent, and the next acquire
\* attempts to connect again.
C15_SessionLifecycle ==
  [][/\ agent_ctx => agent_ctx'
     /\ (IsCall /\ ~ret'.sa.called) => (~ret'.sa.tried /\ agent_ctx' = agent_ctx)
     /\ (IsCall /\ ret'.sa.called) =>
          /\ ret'.sa.tried <=> ~agent_ctx
          /\ agent_ctx => ret'.sa.rc = OK
          /\ agent_ctx' <=> ret'.sa.rc = OK
          /\ ret'.sa.rc # OK =>
               (ret'.rc = ret'.sa.rc /\ ret'.sent = <<>> /\ ret'.sa.rc \in ConnRc)]_vars

\* C15's cases: a call on the session an earlier call acquired, and a call
\* whose connect attempt failed
C15_Witness ==
  /\ pc = "returned" /\ ret.sa.called
  /\ \/ agent_ctx /\ ~ret.sa.tried /\ ret.sent # <<>>
     \/ ~agent_ctx /\ ret.sa.tried /\ ret.rc = "GPG_ERR_ASS_CONNECT_FAILED"

Blank == {" ", "\t"}

\* The whitespace-separated tokens of a text, in order
RECURSIVE Tokens(_)
Tokens(s) ==
  IF s = <<>> THEN <<>>
  ELSE IF s[1] \in Blank THEN Tokens(Tail(s))
  ELSE LET n == CHOOSE n \in 1..Len(s) :
                  /\ \A k \in 1..n : s[k] \notin Blank
                  /\ n = Len(s) \/ s[n + 1] \in Blank
       IN <<SubSeq(s, 1, n)>> \o Tokens(SubSeq(s, n + 1, Len(s)))

IsKeypairLine(line) ==
  Tokens(line) # <<>> /\ Head(Tokens(line)) = Chars("KEYPAIRINFO")

FirstTwo(toks) == SubSeq(toks, 1, IF Len(toks) < 2 THEN Len(toks) ELSE 2)

\* C16: the list keypairinfo() returns has one entry per KEYPAIRINFO status
\* line, in arrival order; each entry holds the first two
\* whitespace-separated tokens of its line after the keyword (fewer if the
\* line has fewer) and nothing after them; other status lines add nothing.
C16_KeypairList ==
  (Returned("scd_keypairinfo") /\ ret.rc = OK) =>
    LET kp == SelectSeq(call.env.status, IsKeypairLine) IN
    /\ Len(ret.out.r_list) = Len(kp)
    /\ \A i \in 1..Len(kp) :
         LET e == ret.out.r_list[i] IN
         /\ Tokens(e) = FirstTwo(Tail(Tokens(kp[i])))
         /\ e = <<>> \/ e[Len(e)] \notin Blank \/ Len(Tokens(e)) < 2

\* C16's case: a line with four fields, then a line with two
C16_Witness ==
  /\ Returned("scd_keypairinfo") /\ ret.rc = OK
  /\ call.env.status
       = <<Chars("KEYPAIRINFO g2 k2 x y"), Chars("KEYPAIRINFO g1 k1")>>
  /\ ret.out.r_list = <<Chars("g2 k2"), Chars("g1 k1")>>

\* The text after the keyword has the form "<grip> T <serial> ...": single
\* blanks around the T, and at least one more field after the serial number
HasSerial(line) ==
  LET t == Tokens(line.rest) IN
  /\ line.kw = "KEYINFO"
  /\ Len(t) >= 4
  /\ t[2] = <<"T">>
  /\ SubSeq(line.rest, 1, Len(t[1]) + Len(t[3]) + 4)
       = t[1] \o <<" ", "T", " ">> \o t[3] \o <<" ">>

\* The serial number the status lines announce: that of the first line of
\* the form above, NULL when there is none
AnnouncedSerial(lines) ==
  IF \E i \in 1..Len(lines) : HasSerial(lines[i])
  THEN LET i == CHOOSE i \in 1..Len(lines) :
                  HasSerial(lines[i]) /\ \A j \in 1..(i - 1) : ~HasSerial(lines[j])
       IN Tokens(lines[i].rest)[3]
  ELSE NULLBUF

\* C17: a status line "KEYINFO <grip> T <serial> ..." yields the serial
\* number <serial>, a line whose third field is not T yields none, and
\* once a serial number is captured later KEYINFO lines do not change it:
\* a successful keyinfo() returns the serial number of the first such line.
C17_SerialFromFirstTLine ==
  (Returned("keyinfo") /\ ret.rc = OK) =>
    ret.out.r_serialno = AnnouncedSerial(call.env.status)

BadChars == {":", "\n", "\r"}

\* C18: keyinfo() never returns a serial number that contains ':', newline
\* or carriage return: when the captured value contains one the call
\* returns InvalidValue without a serial number; the output is absent on
\* every other error return too.
C18_NoInjectedSerial ==
  Returned("keyinfo") =>
    LET sn == ret.out.r_serialno
        captured == AnnouncedSerial(call.env.status)
    IN /\ sn # NULLBUF => (ret.rc = OK /\ \A i \in 1..Len(sn) : sn[i] \notin BadChars)
       /\ ret.rc # OK => sn = NULLBUF
       /\ (ret.trans = OK /\ call.env.alloc /\ captured # NULLBUF
             /\ \E i \in 1..Len(captured) : captured[i] \in BadChars) =>
            ret.rc = GPG_ERR_INV_VALUE

\* C18's case: the captured serial number "S:N" is refused
C18_Witness ==
  /\ Returned("keyinfo") /\ ret.trans = OK /\ call.env.alloc
  /\ AnnouncedSerial(call.env.status) = <<"S", ":", "N">>
  /\ ret.rc = GPG_ERR_INV_VALUE /\ ret.out.r_serialno = NULLBUF

\* The reports the progress sink answered with a cancellation
CancelledReports ==
  {k \in 1..Len(ret.out.reports) : ret.out.reports[k].cancelled}

\* C19: during learn(), when the progress sink signals cancellation, on a
\* PROGRESS status line (which is always relayed, with its text unchanged)
\* or on the report made at an end-of-data marker, the handler returns the
\* cancellation error, the transaction and learn() end with it, nothing is
\* reported afterwards, and the certificate whose end-of-data marker
\* triggered the cancelled report is not stored.
C19_CancelAbortsLearn ==
  Returned("learn") =>
    /\ \A i \in 1..Len(call.env.events) :
         LET ev == call.env.events[i] IN
         (ret.sent # <<>> /\ ev.t = "S" /\ ev.kw = "PROGRESS"
            /\ \A j \in 1..(i - 1) : call.env.events[j].sink = OK) =>
           \E k \in 1..Len(ret.out.reports) :
             ret.out.reports[k] =
               [at |-> i, text |-> ev.rest, cancelled |-> ev.sink # OK]
    /\ \A k \in CancelledReports :
         /\ ret.out.rc = GPG_ERR_ASS_CANCELED
         /\ ret.trans = GPG_ERR_ASS_CANCELED
         /\ ret.rc = GPG_ERR_ASS_CANCELED
         /\ k = Len(ret.out.reports)
         /\ \A s \in 1..Len(ret.out.stored) :
              ret.out.stored[s].at < ret.out.reports[k].at

\* C19's case: a good certificate was stored, then the sink cancelled at the
\* end-of-data marker of a second good certificate, which is not stored
C19_Witness ==
  /\ Returned("learn")
  /\ call.env.events = <<Data(<<"g">>), End(OK, TRUE, OK, "new"),
                         Data(<<"g">>), End(SINK_CANCEL, TRUE, OK, "new")>>
  /\ ret.rc = GPG_ERR_ASS_CANCELED
  /\ Len(ret.out.stored) = 1 /\ ret.out.stored[1].at = 2
  /\ CancelledReports = {2}

\* The certificates the agent sent: the bytes of the data lines up to each
\* end-of-data marker
RECURSIVE CertsSent(_, _)
CertsSent(events, acc) ==
  IF events = <<>> THEN <<>>
  ELSE IF Head(events).t = "D" THEN CertsSent(Tail(events), acc \o Head(events).bytes)
  ELSE IF Head(events).t = "END" THEN <<acc>> \o CertsSent(Tail(events), <<>>)
  ELSE CertsSent(Tail(events), acc)

WellFormed(cert) == ksba_cert_init_from_mem(cert) = OK
Storable(cert) ==
  /\ WellFormed(cert)
  /\ gpgsm_basic_cert_check(cert)
       \in {OK, GPG_ERR_MISSING_CERT, GPG_ERR_MISSING_ISSUER_CERT}

\* C20: during learn(), a certificate that fails to parse is logged and
\* skipped and is not fatal: when the transaction itself succeeds, every
\* certificate of it that parses and passes the basic check, those after a
\* malformed one included, is passed to the certificate store, and learn()
\* returns no error.
C20_ParseFailureNotFatal ==
  LET certs == CertsSent(call.env.events, <<>>) IN
  (/\ Returned("learn") /\ ret.trans = OK
   /\ \A i \in 1..Len(call.env.events) :
        call.env.events[i].mem /\ call.env.events[i].new = OK
   /\ \E i \in 1..Len(certs) : ~WellFormed(certs[i])) =>
    /\ ret.rc = OK
    /\ [s \in 1..Len(ret.out.stored) |-> ret.out.stored[s].cert]
         = SelectSeq(certs, Storable)

IsSerialLine(line) ==
  Tokens(line) # <<>> /\ Head(Tokens(line)) = Chars("SERIALNO")

\* The index of the last line whose keyword is SERIALNO, 0 when there is none
LastSerialIndex(lines) ==
  IF \E i \in 1..Len(lines) : IsSerialLine(lines[i])
    THEN CHOOSE i \in 1..Len(lines) :
           /\ IsSerialLine(lines[i])
           /\ \A j \in (i + 1)..Len(lines) : ~IsSerialLine(lines[j])
  ELSE 0

\* The text after the keyword of that line, NULL when there is no such line
LastSerialLine(lines) ==
  LET i == LastSerialIndex(lines) IN
  IF i = 0 THEN NULLBUF
  ELSE IF Len(Tokens(lines[i])) > 1 THEN Tokens(lines[i])[2] ELSE <<>>

\* The longest prefix of s made of hex digits
RECURSIVE HexPrefix(_)
HexPrefix(s) ==
  IF s = <<>> \/ s[1] \notin HexChars THEN <<>>
  ELSE <<s[1]>> \o HexPrefix(Tail(s))

\* C21 as stated: serialno() returns NoData when the transaction succeeds
\* but no SERIALNO status line was received; a successful return carries
\* the leading hex digits after the keyword of the last SERIALNO line.
C21_NoDataWhenAbsent ==
  Returned("scd_serialno") =>
    LET last == LastSerialLine(call.env.status) IN
    /\ (ret.trans = OK /\ last = NULLBUF) => ret.rc = GPG_ERR_NO_DATA
    /\ ret.rc = OK => (last # NULLBUF /\ ret.out.r_serialno = HexPrefix(last))

\* C21 (amended): serialno() returns the internal error when the
\* transaction succeeds but no serial number was captured (no SERIALNO
\* status line was received, or the copy of the last one could not be
\* allocated); a successful return carries exactly the leading hex digits
\* after the keyword of the last SERIALNO line, and every error return
\* leaves the output absent.
C21_InternalWhenAbsent ==
  Returned("scd_serialno") =>
    LET last == LastSerialLine(call.env.status)
        i == LastSerialIndex(call.env.status)
        lost == i # 0 /\ ~call.env.allocs[i]
    IN
    /\ (ret.trans = OK /\ (last = NULLBUF \/ lost)) => ret.rc = GPG_ERR_INTERNAL
    /\ (ret.trans = OK /\ last # NULLBUF /\ ~lost) => ret.rc = OK
    /\ ret.rc = OK => (last # NULLBUF /\ ret.out.r_serialno = HexPrefix(last))
    /\ ret.rc # OK => ret.out.r_serialno = NULLBUF

\* C21's case: two SERIALNO lines, the last one cut short by a colon
C21_Witness ==
  /\ Returned("scd_serialno")
  /\ call.env.status = <<Chars("SERIALNO D276 0"), Chars("SERIALNO A2:6")>>
  /\ ret.rc = OK /\ ret.out.r_serialno = Chars("A2")

\* The commands of a multi-command operation, as positions in the answers
\* of the agent, in the order the operation issues them
Commands(op, args) ==
  CASE op = "pksign" ->
         IF args.desc # NULL THEN <<1, 2, 3, 4, 5>> ELSE <<1, 2, 4, 5>>
    [] op = "pkdecrypt" ->
         IF args.desc # NULL THEN <<1, 2, 3, 4>> ELSE <<1, 2, 4>>
    [] op \in {"passwd", "export_key"} ->
         IF args.desc # NULL THEN <<1, 2>> ELSE <<2>>
    [] op \in {"scd_pksign", "genkey", "readkey"} -> <<1, 2>>
    [] OTHER -> <<>>

\* The output of an operation is absent
OutputAbsent(op, out) ==
  CASE op \in {"pksign", "scd_pksign", "pkdecrypt"} -> out.r_buf = NULLBUF
    [] op \in {"genkey", "readkey"} -> out.r_pubkey = NULLBUF
    [] op = "export_key" -> out.r_result = NULLBUF
    [] OTHER -> TRUE

\* C22: in every multi-command operation (sign, card-sign, decrypt, genkey,
\* readkey, passwd, export_key), when a command that was sent is answered
\* with an error by the agent, no later command of the sequence is sent,
\* the operation returns that error, and the output is absent.
C22_FirstFailureEndsSequence ==
  (pc = "returned" /\ Commands(call.op, call.args) # <<>>) =>
    LET cmds == Commands(call.op, call.args) IN
    \A j \in 1..Len(cmds) :
      (/\ Len(ret.sent) >= j
       /\ call.env.rcs[cmds[j]] # OK
       /\ \A k \in 1..Len(ret.inq) : ret.inq[k].err = OK) =>
        /\ Len(ret.sent) = j
        /\ ret.rc = call.env.rcs[cmds[j]]
        /\ OutputAbsent(call.op, ret.out)

\* C22's case: sign with a description, the agent refuses SETKEYDESC, and
\* neither SETHASH nor PKSIGN is sent
C22_Witness ==
  /\ Returned("pksign") /\ call.args.desc # NULL
  /\ call.env.rcs[3] = "GPG_ERR_NO_SECKEY"
  /\ Len(ret.sent) = 3 /\ ret.rc = "GPG_ERR_NO_SECKEY"
  /\ ret.out.r_buf = NULLBUF

\* The bytes the agent returned do not begin with a canonical S-expression
NotCanonical(reply) ==
  reply = <<>> \/ gcry_sexp_canon_len(reply, Len(reply)) = 0

\* C23: sign, genkey and readkey validate the bytes returned by the agent
\* as a canonical S-expression: whenever the reply is not canonical the
\* call fails with GPG_ERR_INV_SEXP and the output is null, and a
\* successful return carries a canonical S-expression.
C23_ReplyValidated ==
  (pc = "returned" /\ call.op \in {"pksign", "genkey", "readkey"}
     /\ ret.trans = OK) =>
    /\ (NotCanonical(call.env.reply) /\ ~call.env.mem.oom) =>
         (ret.rc = GPG_ERR_INV_SEXP /\ OutputAbsent(call.op, ret.out))
    /\ ret.rc = OK =>
         LET buf == IF call.op = "pksign" THEN ret.out.r_buf ELSE ret.out.r_pubkey
         IN buf # NULLBUF /\ ~NotCanonical(buf)

\* C24: for decrypt, ask_passphrase and export_key, once the transaction
\* that collects the secret reply has run, every error return leaves no
\* result buffer owned by the call and the caller's output absent; only
\* a successful return hands a buffer to the caller.
C24_SecretBufferReleased ==
  (pc = "returned" /\ call.op \in {"pkdecrypt", "ask_passphrase", "export_key"}
     /\ ret.trans # NULL) =>
    /\ ret.rc \notin {OK, SIGSEGV, SIGABRT} =>
         /\ ~ret.live
         /\ CASE call.op = "pkdecrypt" -> ret.out.r_buf = NULLBUF
              [] call.op = "export_key" -> ret.out.r_result = NULLBUF
              [] OTHER -> ret.out.r_passphrase = NULLBUF
    /\ ret.rc = OK =>
         /\ ~ret.live
         /\ CASE call.op = "pkdecrypt" -> ret.out.r_buf # NULLBUF
              [] call.op = "export_key" -> ret.out.r_result # NULLBUF
              [] OTHER -> ret.out.r_passphrase # NULLBUF

\* C25: card-sign never returns success without a result: whenever
\* gpgsm_scd_pksign returns 0 the output buffer is non-null, and a failure
\* to allocate the wrapper buffer is reported as GPG_ERR_ENOMEM.
C25_CardSignResultOnSuccess ==
  Returned("scd_pksign") =>
    /\ ret.rc = OK => ret.out.r_buf # NULLBUF
    /\ (ret.trans = OK /\ ~call.env.alloc) => ret.rc = GPG_ERR_ENOMEM

\* What gpgsm_delete did for each name it handled
PerName == ret.out.done

\* The deletions among the store functions called for one name
Deletions(h) == {i \in 1..Len(h.trace) :
                   h.trace[i].fn = "delete" /\ h.trace[i].rc = OK}

\* C26: delete_one returns success only if at least one certificate was
\* deleted from the store: every call that deleted nothing returns a
\* non-zero error, and gpgsm_delete stops at the first name whose
\* deletion fails, returning its error.
C26_SuccessMeansDeleted ==
  Returned("delete") =>
    /\ \A i \in 1..Len(PerName) :
         /\ PerName[i].rc = OK =>
              (Deletions(PerName[i]) # {}
                 /\ Len(PerName[i].after) < Len(PerName[i].before))
         /\ PerName[i].after = PerName[i].before => PerName[i].rc # OK
         /\ PerName[i].rc # OK => (i = Len(PerName) /\ ret.rc = PerName[i].rc)
    /\ (ret.rc = OK /\ call.args.names # <<>>) =>
         Len(PerName) = Len(call.args.names)

\* The certificates a search for name sees in a store when it does not ask
\* for ephemeral ones, in file order
Visible(store, name) ==
  SelectSeq(store, LAMBDA c : c.name = name /\ ~c.eph)

\* The name is a plain name: not a fingerprint, not a keygrip, not empty
PlainName(name) == name # "" /\ SubSeq(name, 1, 1) \notin {"0", "&"}

Ambiguous(store, name) ==
  \E i \in 1..Len(Visible(store, name)) :
    Visible(store, name)[i].fpr # Visible(store, name)[1].fpr

Locks(h) == {i \in 1..Len(h.trace) : h.trace[i].fn = "lock"}

\* C27: for a plain name, whenever delete_one returns the ambiguous-name
\* error it has deleted nothing and has not asked for the store lock; when
\* no store function fails, it returns that error exactly when a further
\* match has a fingerprint other than the first match's, so matches that
\* share the first match's fingerprint do not make the name ambiguous.
C27_AmbiguousDeletesNothing ==
  Returned("delete") =>
    \A i \in 1..Len(PerName) :
      LET h == PerName[i] IN
      PlainName(h.name) =>
        /\ h.rc = GPG_ERR_AMBIGUOUS_NAME =>
             (h.after = h.before /\ Locks(h) = {} /\ Deletions(h) = {})
        /\ call.env.fault = NoFault =>
             (h.rc = GPG_ERR_AMBIGUOUS_NAME <=> Ambiguous(h.before, h.name))
        /\ (call.env.fault = NoFault /\ Visible(h.before, h.name) # <<>>
              /\ ~Ambiguous(h.before, h.name)) => h.rc = OK

\* C27's case: the name matches certificates A and B, in a store that also
\* holds a duplicate of A
C27_Witness ==
  /\ Returned("delete") /\ call.env.fault = NoFault
  /\ call.args.names = <<"alice">>
  /\ call.env.store = <<Cert("A", "alice", FALSE), Cert("A", "alice", FALSE),
                        Cert("B", "alice", FALSE)>>
  /\ ret.rc = GPG_ERR_AMBIGUOUS_NAME /\ keybox = call.env.store

\* The store functions called for one name from the lock on
AfterLock(h) ==
  IF Locks(h) = {} THEN <<>>
  ELSE SubSeq(h.trace, (CHOOSE i \in Locks(h) : TRUE) + 1, Len(h.trace))

\* The duplicates delete_one counted: the further matches it read before
\* the search ran out
DuplicatesFound(h) ==
  Cardinality({i \in 1..Len(h.trace) :
                 h.trace[i].fn = "get_cert" /\ h.trace[i].rc = OK}) - 1

\* d + 1 rounds of search reset, successful search and deletion, the lock
\* being given up with the last deletion, and then the release
Rounds(d, key) ==
  IF d < 0 THEN <<>>
  ELSE [i \in 1..(3 * (d + 1)) |->
          CASE i % 3 = 1 -> [fn |-> "search_reset", rc |-> OK, arg |-> ""]
            [] i % 3 = 2 -> [fn |-> "search", rc |-> OK, arg |-> key]
            [] OTHER -> [fn |-> "delete", rc |-> OK,
                         arg |-> IF i = 3 * (d + 1) THEN "1" ELSE "0"]]

\* C28: when delete_one found d duplicates of the matched certificate and
\* no step fails, it performs exactly d + 1 deletions, each immediately
\* preceded by a search reset and a fresh successful search, all of them
\* after the store lock was acquired; if a re-search or a deletion fails,
\* the loop stops at once, no further deletion is performed and the
\* failure is returned.
C28_DeleteLoop ==
  Returned("delete") =>
    \A n \in 1..Len(PerName) :
      LET h == PerName[n]
          d == DuplicatesFound(h)
          key == classify_user_id(h.name).key
          rest == AfterLock(h)
          release == [fn |-> "release", rc |-> OK, arg |-> "kh"]
      IN
      /\ \A i \in Deletions(h) :
           /\ \E l \in Locks(h) : l < i /\ h.trace[l].rc = OK
           /\ i > 2
           /\ h.trace[i - 1] = [fn |-> "search", rc |-> OK, arg |-> key]
           /\ h.trace[i - 2].fn = "search_reset"
      /\ (/\ \E l \in Locks(h) : h.trace[l].rc = OK
          /\ \A i \in 1..Len(rest) : rest[i].rc = OK) =>
           (/\ d >= 0 /\ h.rc = OK
            /\ rest = Rounds(d, key) \o <<release>>
            /\ Cardinality(Deletions(h)) = d + 1
            /\ Len(h.after) = Len(h.before) - (d + 1))
      /\ \A i \in 1..Len(rest) :
           (rest[i].fn \in {"search", "delete"} /\ rest[i].rc # OK) =>
             /\ h.rc = rest[i].rc
             /\ SubSeq(rest, i + 1, Len(rest)) = <<release>>

\* C28's case: a name with two duplicates of the matched certificate, all
\* three deleted
C28_Witness ==
  /\ Returned("delete") /\ call.env.fault = NoFault
  /\ call.args.names = <<"alice">>
  /\ call.env.store = <<Cert("A", "alice", FALSE), Cert("A", "alice", FALSE),
                        Cert("A", "alice", FALSE)>>
  /\ ret.rc = OK /\ keybox = <<>>
  /\ DuplicatesFound(PerName[1]) = 2
  /\ Cardinality(Deletions(PerName[1])) = 3

==========================================================================
